---- MODULE Spec2Model ----
(***************************************************************************)
(* The incremental diagnostics pipeline of the Elm language server:        *)
(*   - MultistepOperation   (src/src/util/multistepOperation.ts)           *)
(*   - DiagnosticsProvider  (src/src/providers/diagnostics/                *)
(*                           diagnosticsProvider.ts)                       *)
(* The Node.js event loop runs one handler at a time, so every handler     *)
(* (an event callback, a timer or immediate callback, the continuation of  *)
(* an await) is one atomic action.  A handler is written as an operator    *)
(* from a state record to a state record, so that the calls it makes       *)
(* (startNew -> complete -> setTimerHandle ...) compose as in the code.    *)
(* The variable log holds the ordered sub-events of the last handler.      *)
(***************************************************************************)
EXTENDS Integers, Sequences, FiniteSets, TLC

\* ---------------------------------------------------------------- bounds
MaxRuns == 2        \* startNew calls per execution
MaxChanges == 1     \* document-change events per execution
MaxEvents == 2      \* tree changes, interrupts and client cancellations per execution
MaxTicks == 2       \* ticks a client action of the scheduler may schedule per run

\* ---------------------------------------------------------------- values
Files == {"a", "b"}
FileLists == {<<>>, <<"a">>, <<"b", "a">>}
TypeResults == {<<>>, <<"t">>}       \* lists the type-inference producer resolves with
LintResults == {<<>>, <<"l">>}       \* lists createDiagnostics returns
\* What the lint rules do for a file: find a list, or throw.
LintOutcomes ==
  {[ok |-> TRUE, d |-> d] : d \in LintResults} \cup {[ok |-> FALSE, d |-> <<>>]}
\* Maps the elm make producer resolves with, as lists of entries in map order.
MakeResults == {<<>>, <<[uri |-> "a", d |-> <<"m">>]>>}
FResults == {"r1", "r2"}             \* values the function given to interuptDiagnostics returns
Kinds == {"ElmLS", "TypeInference", "ElmMake"}

NoTick == [run |-> 0, fn |-> "none", n |-> 0]
NoReq == [token |-> 0, files |-> <<>>]
NoFD == [has |-> FALSE, ElmLS |-> <<>>, TypeInference |-> <<>>, ElmMake |-> <<>>]

RunIds == 1..MaxRuns

\* A syntax tree as the queries of the lint rules see it: whether the module
\* declaration exposes everything, the values its exposing list names, the
\* import clauses, the top-level value declarations with the references in
\* their bodies, what the rules not modelled in detail find in it, and the
\* rule that throws on it, if one does; the union type declarations with
\* their variants, the exposed_type nodes of the module declaration and of
\* the import clauses, the names in type references and the texts of the
\* patterns of case branches.
NoTree ==
  [exposingAll |-> FALSE, exposed |-> {}, imports |-> <<>>, decls |-> <<>>,
   found |-> {}, throws |-> "none", types |-> <<>>, exposedTypes |-> {},
   importTypes |-> {}, typeRefs |-> {}, casePatterns |-> {}]

\* A workspace with an empty forest and a tree without import clauses, whose
\* modules have not been resolved.
NoWorkspace ==
  [forest |-> {}, importClauses |-> <<>>, resolvedModules |-> <<>>,
   resolved |-> FALSE]

VARIABLES
  timerHandle,        \* MultistepOperation.timerHandle
  immediateId,        \* MultistepOperation.immediateId
  cancellationToken,  \* MultistepOperation.cancellationToken (0: undefined)
  done,               \* MultistepOperation.done, the run whose callback it is (0: undefined)
  hostTimers,         \* callbacks armed with setTimeout and not yet fired or cleared
  hostImmediates,     \* callbacks armed with setImmediate and not yet fired or cleared
  cancelled,          \* tokens with isCancellationRequested
  runs,               \* one record per startNew call: the closure of its action
  changeSeq,          \* DiagnosticsProvider.changeSeq
  pendingRequest,     \* DiagnosticsProvider.pendingRequest
  pendingDiagnostics, \* DiagnosticsProvider.pendingDiagnostics, in insertion order
  delayerArmed,       \* diagnosticsDelayer has a task waiting
  currentDiagnostics, \* DiagnosticsProvider.currentDiagnostics
  clientInitiated,    \* clientInitiatedDiagnostics, fixed at construction
  openFiles,          \* events.getManagedUris()
  trees,              \* URIs the forest resolves to a tree container
  events,             \* environment events so far (bounded by MaxEvents)
  doneCount,          \* how often each run's done callback was invoked
  clientSettings,     \* DiagnosticsProvider.clientSettings (the setting read here)
  workspace,          \* MockElmWorkspace: forest, a tree's import clauses, its resolvedModules
  lintTree,           \* the syntax tree handed to ElmLsDiagnostics.createDiagnostics
  lintDiagnostics,    \* what ElmLsDiagnostics.createDiagnostics returned for it
  log                 \* sub-events of the last handler, in order

vars == <<timerHandle, immediateId, cancellationToken, done, hostTimers,
          hostImmediates, cancelled, runs, changeSeq, pendingRequest,
          pendingDiagnostics, delayerArmed, currentDiagnostics,
          clientInitiated, openFiles, trees, events, doneCount,
          clientSettings, workspace, lintTree, lintDiagnostics, log>>

\* The state as one record, for the handlers to transform.
State ==
  [timerHandle |-> timerHandle, immediateId |-> immediateId,
   cancellationToken |-> cancellationToken, done |-> done,
   hostTimers |-> hostTimers, hostImmediates |-> hostImmediates,
   cancelled |-> cancelled, runs |-> runs, changeSeq |-> changeSeq,
   pendingRequest |-> pendingRequest, pendingDiagnostics |-> pendingDiagnostics,
   delayerArmed |-> delayerArmed, currentDiagnostics |-> currentDiagnostics,
   clientInitiated |-> clientInitiated, openFiles |-> openFiles, trees |-> trees,
   events |-> events, doneCount |-> doneCount, clientSettings |-> clientSettings,
   workspace |-> workspace,
   lintTree |-> lintTree, lintDiagnostics |-> lintDiagnostics, log |-> <<>>]

\* The handler's result h becomes the next state.  A handler that changed
\* nothing and did nothing leaves the record of the last handler that did.
Becomes(h) ==
  \E s \in {h} :
  IF s = State THEN UNCHANGED vars ELSE
  /\ timerHandle' = s.timerHandle
  /\ immediateId' = s.immediateId
  /\ cancellationToken' = s.cancellationToken
  /\ done' = s.done
  /\ hostTimers' = s.hostTimers
  /\ hostImmediates' = s.hostImmediates
  /\ cancelled' = s.cancelled
  /\ runs' = s.runs
  /\ changeSeq' = s.changeSeq
  /\ pendingRequest' = s.pendingRequest
  /\ pendingDiagnostics' = s.pendingDiagnostics
  /\ delayerArmed' = s.delayerArmed
  /\ currentDiagnostics' = s.currentDiagnostics
  /\ clientInitiated' = s.clientInitiated
  /\ openFiles' = s.openFiles
  /\ trees' = s.trees
  /\ events' = s.events
  /\ doneCount' = s.doneCount
  /\ clientSettings' = s.clientSettings
  /\ workspace' = s.workspace
  /\ lintTree' = s.lintTree
  /\ lintDiagnostics' = s.lintDiagnostics
  /\ log' = s.log

\* The state is s (for the initial condition).
Is(s) ==
  /\ timerHandle = s.timerHandle
  /\ immediateId = s.immediateId
  /\ cancellationToken = s.cancellationToken
  /\ done = s.done
  /\ hostTimers = s.hostTimers
  /\ hostImmediates = s.hostImmediates
  /\ cancelled = s.cancelled
  /\ runs = s.runs
  /\ changeSeq = s.changeSeq
  /\ pendingRequest = s.pendingRequest
  /\ pendingDiagnostics = s.pendingDiagnostics
  /\ delayerArmed = s.delayerArmed
  /\ currentDiagnostics = s.currentDiagnostics
  /\ clientInitiated = s.clientInitiated
  /\ openFiles = s.openFiles
  /\ trees = s.trees
  /\ events = s.events
  /\ doneCount = s.doneCount
  /\ clientSettings = s.clientSettings
  /\ workspace = s.workspace
  /\ lintTree = s.lintTree
  /\ lintDiagnostics = s.lintDiagnostics
  /\ log = s.log

\* One sub-event of a handler: e is what happened, by the run whose code did it
\* (0: the coordinator or the host), run/fn the tick or run it is about.
Ev(e, by, run, fn, uri, val) ==
  [e |-> e, by |-> by, run |-> run, fn |-> fn, uri |-> uri, val |-> val]

Emit(s, ev) == [s EXCEPT !.log = Append(@, ev)]

SeqToSet(q) == {q[i] : i \in 1..Len(q)}

\* -------------------------------------------------- MultistepOperation

\* Mutant of setTimerHandle: the stored timer is replaced without clearTimeout.
setTimerHandle_NoClear(s, by, h) == [s EXCEPT !.timerHandle = h]

\* multistepOperation.ts:80-85
setTimerHandle(s, by, h) ==
  LET s1 == IF s.timerHandle # NoTick
            THEN Emit([s EXCEPT !.hostTimers = @ \ {s.timerHandle}],
                      Ev("clear", by, s.timerHandle.run, s.timerHandle.fn, "", 0))
            ELSE s
  IN [s1 EXCEPT !.timerHandle = h]

\* multistepOperation.ts:87-92
setImmediateId(s, by, h) ==
  LET s1 == IF s.immediateId # NoTick
            THEN Emit([s EXCEPT !.hostImmediates = @ \ {s.immediateId}],
                      Ev("clear", by, s.immediateId.run, s.immediateId.fn, "", 0))
            ELSE s
  IN [s1 EXCEPT !.immediateId = h]

\* multistepOperation.ts:94-96
hasPendingWork(s) == s.timerHandle # NoTick \/ s.immediateId # NoTick

\* Mutant of complete: done is called and not forgotten.
complete_KeepsDone(s, by) ==
  LET s1 == IF s.done # 0
            THEN [Emit(s, Ev("done", by, s.done, "", "", 0))
                    EXCEPT !.doneCount[s.done] = @ + 1,
                           !.cancellationToken = 0]
            ELSE s
  IN setImmediateId(setTimerHandle(s1, by, NoTick), by, NoTick)

\* multistepOperation.ts:32-40
complete(s, by) ==
  LET s1 == IF s.done # 0
            THEN [Emit(s, Ev("done", by, s.done, "", "", 0))
                    EXCEPT !.doneCount[s.done] = @ + 1,
                           !.cancellationToken = 0,
                           !.done = 0]
            ELSE s
  IN setImmediateId(setTimerHandle(s1, by, NoTick), by, NoTick)

\* multistepOperation.ts:42-49: setImmediate registers the callback, then
\* setImmediateId clears the stored one and stores the new one.
immediate(s, by, tick) ==
  LET s1 == Emit([s EXCEPT !.hostImmediates = @ \cup {tick}],
                 Ev("schedule", by, tick.run, tick.fn, "", 0))
  IN setImmediateId(s1, by, tick)

\* multistepOperation.ts:51-58
delay(s, by, tick) ==
  LET s1 == Emit([s EXCEPT !.hostTimers = @ \cup {tick}],
                 Ev("schedule", by, tick.run, tick.fn, "", 0))
  IN setTimerHandle(s1, by, tick)

\* ------------------------------------------------------ FileDiagnostics

\* FileDiagnostics.update: replaces one kind's list, answers whether it changed.
FileDiagnosticsUpdate(fd, kind, diagnostics) ==
  [didUpdate |-> fd[kind] # diagnostics,
   fd |-> [fd EXCEPT ![kind] = diagnostics, !.has = TRUE]]

\* FileDiagnostics.get: the concatenation of the kinds' lists.
FileDiagnosticsGet(fd) == fd.ElmLS \o fd.TypeInference \o fd.ElmMake

\* -------------------------------------------- DiagnosticsProvider, part 1

\* Mutant of updateDiagnostics: the notification carries the updated kind's
\* list only.
updateDiagnostics_SendsKindOnly(s, by, uri, kind, diagnostics) ==
  LET fd == s.currentDiagnostics[uri]
      s0 == Emit(s, Ev("update", by, by, kind, uri, diagnostics))
      u == IF fd.has
           THEN FileDiagnosticsUpdate(fd, kind, diagnostics)
           ELSE IF Len(diagnostics) > 0
                THEN [didUpdate |-> TRUE,
                      fd |-> FileDiagnosticsUpdate(NoFD, kind, diagnostics).fd]
                ELSE [didUpdate |-> FALSE, fd |-> fd]
      s1 == [s0 EXCEPT !.currentDiagnostics[uri] = u.fd]
  IN IF u.didUpdate
     THEN Emit(s1, Ev("send", by, by, "", uri, diagnostics))
     ELSE s1

\* Mutant of updateDiagnostics: the sink is notified on every call.
updateDiagnostics_AlwaysSends(s, by, uri, kind, diagnostics) ==
  LET fd == s.currentDiagnostics[uri]
      s0 == Emit(s, Ev("update", by, by, kind, uri, diagnostics))
      u == IF fd.has
           THEN FileDiagnosticsUpdate(fd, kind, diagnostics)
           ELSE IF Len(diagnostics) > 0
                THEN [didUpdate |-> TRUE,
                      fd |-> FileDiagnosticsUpdate(NoFD, kind, diagnostics).fd]
                ELSE [didUpdate |-> FALSE, fd |-> fd]
      s1 == [s0 EXCEPT !.currentDiagnostics[uri] = u.fd]
  IN Emit(s1, Ev("send", by, by, "", uri, FileDiagnosticsGet(u.fd)))

\* diagnosticsProvider.ts:236-261
updateDiagnostics(s, by, uri, kind, diagnostics) ==
  LET fd == s.currentDiagnostics[uri]
      s0 == Emit(s, Ev("update", by, by, kind, uri, diagnostics))
      u == IF fd.has
           THEN FileDiagnosticsUpdate(fd, kind, diagnostics)
           ELSE IF Len(diagnostics) > 0
                THEN [didUpdate |-> TRUE,
                      fd |-> FileDiagnosticsUpdate(NoFD, kind, diagnostics).fd]
                ELSE [didUpdate |-> FALSE, fd |-> fd]
      s1 == [s0 EXCEPT !.currentDiagnostics[uri] = u.fd]
  IN IF u.didUpdate
     THEN Emit(s1, Ev("send", by, by, "", uri, FileDiagnosticsGet(u.fd)))
     ELSE s1

\* Mutant of deleteDiagnostics: the sink is told, the entry stays.
deleteDiagnostics_KeepsEntry(s, uri) ==
  Emit(Emit(s, Ev("delete", 0, 0, "", uri, 0)), Ev("send", 0, 0, "", uri, <<>>))

\* diagnosticsProvider.ts:263-269
deleteDiagnostics(s, uri) ==
  LET s1 == Emit(s, Ev("delete", 0, 0, "", uri, 0))
      s2 == [s1 EXCEPT !.currentDiagnostics[uri] = NoFD]
  IN Emit(s2, Ev("send", 0, 0, "", uri, <<>>))

\* diagnosticsProvider.ts:389-391
change(s) == [s EXCEPT !.changeSeq = @ + 1]

\* CancellationTokenSource.cancel().  The run the token belongs to notes how
\* many of its per-file steps had started when it was first cancelled.
cancel(s, tok) ==
  LET s1 == IF tok \in s.cancelled THEN s
            ELSE [s EXCEPT !.runs[tok].cancelAt = s.runs[tok].stepped]
  IN Emit([s1 EXCEPT !.cancelled = @ \cup {tok}], Ev("cancel", 0, tok, "", "", 0))

\* A tick of a run's per-file loop: the closure scheduled with delay/immediate.
Tick(r, fn, n) == [run |-> r, fn |-> fn, n |-> n]

\* diagnosticsProvider.ts:295-300
goNext(s, r) ==
  LET s1 == [s EXCEPT !.runs[r].index = @ + 1]
  IN IF Len(s1.runs[r].files) > s1.runs[r].index
     THEN delay(s1, r, Tick(r, "checkOne", s1.runs[r].index))
     ELSE s1

\* Mutant of checkOne: a file without tree ends the function, and nothing
\* goes on to the next file.
checkOne_SkipEndsRun(s0, r) ==
  LET s == [s0 EXCEPT !.runs[r].stepped = @ + 1]
      run == s.runs[r]
      uri == run.files[run.index + 1]
  IN IF s.changeSeq # run.seq
     THEN s
     ELSE IF uri \notin s.trees
          THEN s
          ELSE [s EXCEPT !.runs[r].await = TRUE]

\* diagnosticsProvider.ts:302-326: checkOne up to its await.  The call of the
\* type-inference producer returns a promise; the function is suspended there.
checkOne(s0, r) ==
  LET s == [s0 EXCEPT !.runs[r].stepped = @ + 1]
      run == s.runs[r]
      uri == run.files[run.index + 1]
  IN IF s.changeSeq # run.seq
     THEN s
     ELSE IF uri \notin s.trees
          THEN goNext(s, r)
          ELSE [s EXCEPT !.runs[r].await = TRUE]

\* Mutant of checkOneResume: the lint diagnostics are computed and published
\* right after the type-inference ones, without next.immediate.
checkOneResume_LintsAtOnce(s, r, diagnostics) ==
  LET run == s.runs[r]
      uri == run.files[run.index + 1]
      s0 == [s EXCEPT !.runs[r].await = FALSE]
      s1 == updateDiagnostics(s0, r, uri, "TypeInference", diagnostics)
  IN IF s1.changeSeq # run.seq
     THEN s1
     ELSE goNext(updateDiagnostics(s1, r, uri, "ElmLS", <<>>), r)

\* diagnosticsProvider.ts:319-340: checkOne from the point where the awaited
\* promise resolved with diagnostics.
checkOneResume(s, r, diagnostics) ==
  LET run == s.runs[r]
      uri == run.files[run.index + 1]
      s0 == [s EXCEPT !.runs[r].await = FALSE]
      s1 == updateDiagnostics(s0, r, uri, "TypeInference", diagnostics)
  IN IF s1.changeSeq # run.seq
     THEN s1
     ELSE immediate(s1, r, Tick(r, "lint", run.index))

\* elmLsDiagnostics.ts:331-359: the rules' findings, or, when a rule throws,
\* the exception written to the console and the empty list.
createDiagnostics(outcome) == IF outcome.ok THEN outcome.d ELSE <<>>

\* The console.log(e) of createDiagnostics's catch block, when it is reached.
createDiagnosticsLog(s, by, uri, outcome) ==
  IF outcome.ok THEN s ELSE Emit(s, Ev("caught", by, by, "ElmLS", uri, 0))

\* diagnosticsProvider.ts:333-340: the function given to next.immediate.
lintStep(s, r, outcome) ==
  LET run == s.runs[r]
      uri == run.files[run.index + 1]
      s1 == createDiagnosticsLog(s, r, uri, outcome)
  IN goNext(updateDiagnostics(s1, r, uri, "ElmLS", createDiagnostics(outcome)), r)

\* diagnosticsProvider.ts:291-346: the action given to startNew.
getDiagnosticsAction(s, r) ==
  LET s1 == [s EXCEPT !.runs[r].seq = s.changeSeq]
  IN IF Len(s1.runs[r].files) > 0 /\ s1.changeSeq = s1.runs[r].seq
     THEN delay(s1, r, Tick(r, "checkOne", 0))
     ELSE s1

\* ------------------------------------ a client action of the scheduler
\* What one synchronous call of an action or tick function of a client may do
\* with the INextStep handle it is given.
Behaviours ==
  {"ret", "imm", "delay", "throw", "throwCancel", "delayThrow", "suspend"}
Scheduling == {"imm", "delay", "delayThrow"}
ResumeBehaviours == {"ret", "imm", "delay"}

BehavioursFor(s, r) ==
  IF s.runs[r].fuel > 0 THEN Behaviours ELSE Behaviours \ Scheduling

\* The function a client passes to startNew/immediate/delay, run once.
stepFn(s, r, b) ==
  LET f == s.runs[r].fuel
      s1 == [s EXCEPT !.runs[r].fuel = IF b \in Scheduling THEN f - 1 ELSE f]
      st == CASE b = "imm" -> immediate(s1, r, Tick(r, "step", f))
             [] b \in {"delay", "delayThrow"} -> delay(s1, r, Tick(r, "step", f))
             [] b = "suspend" -> [s1 EXCEPT !.runs[r].await = TRUE]
             [] OTHER -> s1
  IN [st |-> st,
      threw |-> CASE b \in {"throw", "delayThrow"} -> "error"
                  [] b = "throwCancel" -> "cancel"
                  [] OTHER -> "none"]

\* The continuation of a suspended client function, using the handle it kept.
stepResume(s, r, b) ==
  LET f == s.runs[r].fuel
      s0 == [s EXCEPT !.runs[r].await = FALSE]
      s1 == [s0 EXCEPT !.runs[r].fuel = IF b \in Scheduling THEN f - 1 ELSE f]
  IN CASE b = "imm" -> immediate(s1, r, Tick(r, "step", f))
       [] b = "delay" -> delay(s1, r, Tick(r, "step", f))
       [] OTHER -> s1

\* ------------------------------------------- MultistepOperation, part 2

\* The call action(this) of executeAction (multistepOperation.ts:66): the
\* function of the tick, with what it threw.
RunFn(s, tick, c) ==
  LET r == tick.run
      s0 == Emit(s, Ev("fn", r, r, tick.fn, "", tick.n))
  IN CASE tick.fn = "start" /\ s.runs[r].kind = "diag" ->
            [st |-> getDiagnosticsAction(s0, r), threw |-> "none"]
       [] tick.fn = "checkOne" -> [st |-> checkOne(s0, r), threw |-> "none"]
       [] tick.fn = "lint" -> [st |-> lintStep(s0, r, c), threw |-> "none"]
       [] OTHER -> stepFn(s0, r, c)

\* Mutant of executeAction: an exception is caught and reported but does not
\* stop the run.
executeAction_NoStopOnThrow(s, tick, c) ==
  LET isCancelled == s.cancellationToken # 0 /\ s.cancellationToken \in s.cancelled
      res == IF isCancelled THEN [st |-> s, threw |-> "none"] ELSE RunFn(s, tick, c)
      s0 == IF res.threw # "none"
            THEN Emit(res.st, Ev("threw", tick.run, tick.run, res.threw, "", 0))
            ELSE res.st
      s1 == IF res.threw = "error"
            THEN Emit(s0, Ev("error", tick.run, tick.run, tick.fn, "", 0))
            ELSE s0
  IN IF isCancelled \/ ~hasPendingWork(s1) THEN complete(s1, tick.run) ELSE s1

\* Mutant of executeAction: the run is completed after every action, also
\* with a timer or an immediate pending.
executeAction_AlwaysCompletes(s, tick, c) ==
  LET isCancelled == s.cancellationToken # 0 /\ s.cancellationToken \in s.cancelled
      res == IF isCancelled THEN [st |-> s, threw |-> "none"] ELSE RunFn(s, tick, c)
      s0 == IF res.threw # "none"
            THEN Emit(res.st, Ev("threw", tick.run, tick.run, res.threw, "", 0))
            ELSE res.st
      s1 == IF res.threw = "error"
            THEN Emit(s0, Ev("error", tick.run, tick.run, tick.fn, "", 0))
            ELSE s0
  IN complete(s1, tick.run)

\* multistepOperation.ts:60-78
executeAction(s, tick, c) ==
  LET isCancelled == s.cancellationToken # 0 /\ s.cancellationToken \in s.cancelled
      res == IF isCancelled THEN [st |-> s, threw |-> "none"] ELSE RunFn(s, tick, c)
      stop == isCancelled \/ res.threw # "none"
      s0 == IF res.threw # "none"
            THEN Emit(res.st, Ev("threw", tick.run, tick.run, res.threw, "", 0))
            ELSE res.st
      s1 == IF res.threw = "error"
            THEN Emit(s0, Ev("error", tick.run, tick.run, tick.fn, "", 0))
            ELSE s0
  IN IF stop \/ ~hasPendingWork(s1) THEN complete(s1, tick.run) ELSE s1

\* multistepOperation.ts:21-30
startNew(s, r, c) ==
  LET s0 == Emit(s, Ev("start", r, r, "", "", 0))
      s1 == complete(s0, r)
      s2 == [s1 EXCEPT !.cancellationToken = r, !.done = r]
  IN executeAction(s2, Tick(r, "start", 0), c)

\* The callback of setTimeout in delay (multistepOperation.ts:53-56).
timerCallback(s, tick, c) ==
  executeAction([s EXCEPT !.hostTimers = @ \ {tick}, !.timerHandle = NoTick],
                tick, c)

\* The callback of setImmediate in immediate (multistepOperation.ts:44-47).
immediateCallback(s, tick, c) ==
  executeAction([s EXCEPT !.hostImmediates = @ \ {tick}, !.immediateId = NoTick],
                tick, c)

\* -------------------------------------------- DiagnosticsProvider, part 2

\* Array.prototype.sort((a, b) => a[1] - b[1]): a stable sort by timestamp.
RECURSIVE InsertByTime(_, _)
InsertByTime(sorted, e) ==
  IF sorted = <<>> THEN <<e>>
  ELSE IF sorted[Len(sorted)].ts <= e.ts
       THEN Append(sorted, e)
       ELSE Append(InsertByTime(SubSeq(sorted, 1, Len(sorted) - 1), e),
                   sorted[Len(sorted)])

RECURSIVE SortByTime(_)
SortByTime(entries) ==
  IF entries = <<>> THEN <<>>
  ELSE InsertByTime(SortByTime(SubSeq(entries, 1, Len(entries) - 1)),
                    entries[Len(entries)])

\* Mutant of getOrderedFiles: the entries are returned in insertion order.
getOrderedFiles_Unsorted(pd) == [i \in 1..Len(pd) |-> pd[i].uri]

\* diagnosticsProvider.ts:40-44
getOrderedFiles(pd) ==
  LET sorted == SortByTime(pd) IN [i \in 1..Len(sorted) |-> sorted[i].uri]

\* Map.set of pendingDiagnostics: a present key keeps its place in the map.
PendingSet(pd, uri, t) ==
  IF \E i \in 1..Len(pd) : pd[i].uri = uri
  THEN [i \in 1..Len(pd) |-> IF pd[i].uri = uri THEN [uri |-> uri, ts |-> t] ELSE pd[i]]
  ELSE Append(pd, [uri |-> uri, ts |-> t])

\* Mutant of PushMissing: every file is pushed, listed or not.
PushMissing_All(ordered, files) == ordered \o files

\* files.forEach(file => { if (!orderedFiles.includes(file)) orderedFiles.push(file) })
RECURSIVE PushMissing(_, _)
PushMissing(ordered, files) ==
  IF files = <<>> THEN ordered
  ELSE PushMissing(IF Head(files) \in SeqToSet(ordered) THEN ordered
                   ELSE Append(ordered, Head(files)),
                   Tail(files))

\* Delayer.trigger: (re)arms the debounce timer with the task.
DelayerTrigger(s) == [s EXCEPT !.delayerArmed = TRUE]

\* diagnosticsProvider.ts:199-234, the part outside sendPendingDiagnostics.
triggerDiagnostics(s) == DelayerTrigger(Emit(s, Ev("trigger", 0, 0, "", "", 0)))

\* Date.now() never decreases, so the time of a new mark is the latest time in
\* the map (the clock has not moved since) or a later one.  Only the order of
\* the times is ever read (by the sort), so times are kept as ranks 0, 1, ...
MaxTs(pd) ==
  IF pd = <<>> THEN 0
  ELSE CHOOSE m \in {pd[i].ts : i \in 1..Len(pd)} :
         \A i \in 1..Len(pd) : pd[i].ts <= m

Rank(pd) ==
  [i \in 1..Len(pd) |->
     [uri |-> pd[i].uri,
      ts |-> Cardinality({pd[j].ts : j \in 1..Len(pd)} \cap 0..(pd[i].ts - 1))]]

\* Mutant of requestDiagnostics: the URI is recorded and the debounce timer
\* is not armed.
requestDiagnostics_NoTrigger(s, uri, later) ==
  LET t == MaxTs(s.pendingDiagnostics) + (IF later THEN 1 ELSE 0)
  IN [s EXCEPT !.pendingDiagnostics = Rank(PendingSet(@, uri, t))]

\* diagnosticsProvider.ts:169-172; later says whether the clock has moved
\* since the latest mark.
requestDiagnostics(s, uri, later) ==
  LET t == MaxTs(s.pendingDiagnostics) + (IF later THEN 1 ELSE 0)
  IN triggerDiagnostics(
       [s EXCEPT !.pendingDiagnostics = Rank(PendingSet(@, uri, t))])

\* diagnosticsProvider.ts:282-351: a new run record is the closure of the action.
getDiagnostics(s, files) ==
  LET r == Len(s.runs) + 1
      s1 == [s EXCEPT !.runs = Append(@, [kind |-> "diag", files |-> files,
                                          seq |-> -1, index |-> 0,
                                          await |-> FALSE, fuel |-> 0,
                                          stepped |-> 0, cancelAt |-> -1])]
  IN startNew(s1, r, "ret")

\* diagnosticsProvider.ts:271-280: the token source made here is named by the
\* number of the run it is handed to.
getDiagnosticsWithCancellation(s, files) == getDiagnostics(s, files)

\* Mutant of sendPendingDiagnostics: the files of the request it cancels are
\* not pushed onto the new list.
sendPendingDiagnostics_NoMerge(s) ==
  LET ordered0 == getOrderedFiles(s.pendingDiagnostics)
      hasReq == s.pendingRequest # NoReq
      s1 == IF hasReq
            THEN [cancel(s, s.pendingRequest.token) EXCEPT !.pendingRequest = NoReq]
            ELSE s
      orderedFiles == PushMissing(ordered0, s.openFiles)
      s2 == IF Len(orderedFiles) > 0
            THEN [getDiagnosticsWithCancellation(s1, orderedFiles)
                    EXCEPT !.pendingRequest =
                             [token |-> Len(s1.runs) + 1, files |-> orderedFiles]]
            ELSE s1
  IN [s2 EXCEPT !.pendingDiagnostics = <<>>]

\* diagnosticsProvider.ts:200-231
sendPendingDiagnostics(s) ==
  LET ordered0 == getOrderedFiles(s.pendingDiagnostics)
      hasReq == s.pendingRequest # NoReq
      s1 == IF hasReq
            THEN [cancel(s, s.pendingRequest.token) EXCEPT !.pendingRequest = NoReq]
            ELSE s
      ordered1 == IF hasReq THEN PushMissing(ordered0, s.pendingRequest.files)
                  ELSE ordered0
      orderedFiles == PushMissing(ordered1, s.openFiles)
      s2 == IF Len(orderedFiles) > 0
            THEN [getDiagnosticsWithCancellation(s1, orderedFiles)
                    EXCEPT !.pendingRequest =
                             [token |-> Len(s1.runs) + 1, files |-> orderedFiles]]
            ELSE s1
  IN [s2 EXCEPT !.pendingDiagnostics = <<>>]

\* Mutant of interuptDiagnostics: the drain is triggered before f is called.
interuptDiagnostics_TriggerFirst(s, fres) ==
  IF s.pendingRequest = NoReq
  THEN Emit(Emit(s, Ev("f", 0, 0, "", "", fres)), Ev("return", 0, 0, "", "", fres))
  ELSE LET tok == s.pendingRequest.token
           s1 == cancel(s, tok)
           s2 == [s1 EXCEPT !.pendingRequest = NoReq]
           s3 == triggerDiagnostics(s2)
           s4 == Emit(s3, Ev("f", 0, tok, "", "", fres))
       IN Emit(s4, Ev("return", 0, 0, "", "", fres))

\* diagnosticsProvider.ts:186-197; fres is what f returns.
interuptDiagnostics(s, fres) ==
  IF s.pendingRequest = NoReq
  THEN Emit(Emit(s, Ev("f", 0, 0, "", "", fres)), Ev("return", 0, 0, "", "", fres))
  ELSE LET tok == s.pendingRequest.token
           s1 == cancel(s, tok)
           s2 == [s1 EXCEPT !.pendingRequest = NoReq]
           s3 == Emit(s2, Ev("f", 0, tok, "", "", fres))
           s4 == triggerDiagnostics(s3)
       IN Emit(s4, Ev("return", 0, 0, "", "", fres))

\* Mutant of onTreeChange: the request whose token is cancelled is dropped,
\* as interuptDiagnostics does.
onTreeChange_DropsRequest(s, uri, later) ==
  IF ~s.clientInitiated
  THEN LET s1 == IF s.pendingRequest # NoReq
                 THEN [cancel(s, s.pendingRequest.token)
                         EXCEPT !.pendingRequest = NoReq]
                 ELSE s
       IN requestDiagnostics(s1, uri, later)
  ELSE s

\* Mutant of onTreeChange: a tree change counts as a document change too.
onTreeChange_Changes(s, uri, later) ==
  IF ~s.clientInitiated
  THEN LET s1 == IF s.pendingRequest # NoReq
                 THEN cancel(s, s.pendingRequest.token)
                 ELSE s
       IN requestDiagnostics(change(s1), uri, later)
  ELSE s

\* diagnosticsProvider.ts:153-161
onTreeChange(s, uri, later) ==
  IF ~s.clientInitiated
  THEN LET s1 == IF s.pendingRequest # NoReq
                 THEN cancel(s, s.pendingRequest.token)
                 ELSE s
       IN requestDiagnostics(s1, uri, later)
  ELSE s

\* diagnosticsProvider.ts:174-184, as run by the constructor (line 150): every
\* writable file of the forest is marked pending and the debounce is armed.
requestAllDiagnostics(s) ==
  triggerDiagnostics(
    [s EXCEPT !.pendingDiagnostics =
                PendingSet(PendingSet(@, "a", 0), "b", 0)])

\* -------------------------------------------- DiagnosticsProvider, part 3
\* The handlers that write the per-file store outside a run.  A Map is walked
\* in insertion order; currentDiagnostics and the forest are walked here in
\* the order of FileOrder, the calls made for different files being
\* independent of one another.
FileOrder == <<"a", "b">>

\* The keys of currentDiagnostics.
CurrentUris(s) ==
  LET Has(u) == s.currentDiagnostics[u].has IN SelectSeq(FileOrder, Has)

\* diagnosticsProvider.ts:103-110: deleted is the list of the uris of the
\* event's changes of type Deleted.
RECURSIVE onDidChangeWatchedFiles(_, _)
onDidChangeWatchedFiles(s, deleted) ==
  IF deleted = <<>> THEN s
  ELSE onDidChangeWatchedFiles(deleteDiagnostics(s, Head(deleted)), Tail(deleted))

\* entries.forEach(e => this.updateDiagnostics(e.uri, kind, e.d))
RECURSIVE updateEach(_, _, _)
updateEach(s, kind, entries) ==
  IF entries = <<>> THEN s
  ELSE updateEach(updateDiagnostics(s, 0, Head(entries).uri, kind, Head(entries).d),
                  kind, Tail(entries))

\* diagnosticsProvider.ts:133-145: every writeable tree of the forest is
\* linted and its result stored; outcomes gives what the rules do per file.
RECURSIVE lintEach(_, _, _)
lintEach(s, uris, outcomes) ==
  IF uris = <<>> THEN s
  ELSE LET uri == Head(uris)
           s1 == createDiagnosticsLog(s, 0, uri, outcomes[uri])
       IN lintEach(updateDiagnostics(s1, 0, uri, "ElmLS",
                                     createDiagnostics(outcomes[uri])),
                   Tail(uris), outcomes)

\* Mutant of onDidChangeConfiguration: disabling deletes the stored files'
\* diagnostics altogether.
onDidChangeConfiguration_DeletesEntries(s, disableElmLSDiagnostics, outcomes) ==
  LET s0 == [s EXCEPT !.clientSettings =
                        [disableElmLSDiagnostics |-> disableElmLSDiagnostics]]
  IN IF disableElmLSDiagnostics
     THEN onDidChangeWatchedFiles(s0, CurrentUris(s0))
     ELSE LET Writeable(u) == u \in s0.trees
          IN lintEach(s0, SelectSeq(FileOrder, Writeable), outcomes)

\* Mutant of onDidChangeConfiguration: enabling marks every writeable file
\* pending and leaves the linting to the next drain.
onDidChangeConfiguration_ViaQueue(s, disableElmLSDiagnostics, outcomes) ==
  LET s0 == [s EXCEPT !.clientSettings =
                        [disableElmLSDiagnostics |-> disableElmLSDiagnostics]]
  IN IF disableElmLSDiagnostics
     THEN LET uris == CurrentUris(s0)
          IN updateEach(s0, "ElmLS",
                        [i \in 1..Len(uris) |-> [uri |-> uris[i], d |-> <<>>]])
     ELSE requestAllDiagnostics(s0)

\* diagnosticsProvider.ts:124-147
onDidChangeConfiguration(s, disableElmLSDiagnostics, outcomes) ==
  LET s0 == [s EXCEPT !.clientSettings =
                        [disableElmLSDiagnostics |-> disableElmLSDiagnostics]]
  IN IF disableElmLSDiagnostics
     THEN LET uris == CurrentUris(s0)
          IN updateEach(s0, "ElmLS",
                        [i \in 1..Len(uris) |-> [uri |-> uris[i], d |-> <<>>]])
     ELSE LET Writeable(u) == u \in s0.trees
          IN lintEach(s0, SelectSeq(FileOrder, Writeable), outcomes)

\* diagnosticsProvider.ts:375-387: the list gets an empty entry for every
\* stored file it lacks whose list of the kind is not empty.
resetDiagnostics(s, diagnosticList, diagnosticKind) ==
  LET inList == {diagnosticList[i].uri : i \in 1..Len(diagnosticList)}
      Missing(u) == /\ u \notin inList
                    /\ Len(s.currentDiagnostics[u][diagnosticKind]) > 0
      add == SelectSeq(CurrentUris(s), Missing)
  IN diagnosticList \o [i \in 1..Len(add) |-> [uri |-> add[i], d |-> <<>>]]

\* diagnosticsProvider.ts:353-373, from the point where the awaited promise
\* of the elm make producer resolved with elmMakeDiagnostics.
\* Mutant of getElmMakeDiagnosticsResume: only the files of the result are
\* updated; the lists of the other files stay.
getElmMakeDiagnosticsResume_KeepsStale(s, elmMakeDiagnostics) ==
  updateEach(s, "ElmMake", elmMakeDiagnostics)

getElmMakeDiagnosticsResume(s, elmMakeDiagnostics) ==
  LET list == resetDiagnostics(s, elmMakeDiagnostics, "ElmMake")
      inList == {list[i].uri : i \in 1..Len(list)}
      s1 == updateEach(s, "ElmMake", list)
      NotIn(u) == u \notin inList
      rest == SelectSeq(CurrentUris(s1), NotIn)
  IN updateEach(s1, "ElmMake", [i \in 1..Len(rest) |-> [uri |-> rest[i], d |-> <<>>]])

\* ---------------------------------------------------------------- actions

\* The state at the start of a handler of a counted environment event.
Counted == [State EXCEPT !.events = @ + 1]

\* documentEvents "change" (diagnosticsProvider.ts:163-166)
DocumentChange ==
  /\ changeSeq < MaxChanges
  /\ Becomes(change(State))

\* astProvider.onTreeChange
TreeChange ==
  /\ events < MaxEvents
  /\ \E uri \in trees, later \in BOOLEAN :
       Becomes(onTreeChange(IF clientInitiated THEN State ELSE Counted, uri, later))

\* The debounce timer of the Delayer fires and runs its task.
DelayerFire ==
  /\ delayerArmed
  /\ Len(runs) < MaxRuns
  /\ Becomes(sendPendingDiagnostics([State EXCEPT !.delayerArmed = FALSE]))

\* Some provider calls interuptDiagnostics(f).
Interrupt ==
  /\ events < MaxEvents
  /\ \E fres \in FResults : Becomes(interuptDiagnostics(Counted, fres))

\* The client's GetDiagnosticsRequest (diagnosticsProvider.ts:116-122).
GetDiagnosticsRequest ==
  /\ clientInitiated
  /\ Len(runs) < MaxRuns
  /\ \E files \in FileLists : Becomes(getDiagnostics(State, files))

\* The client cancels a request it made: the token of that request.
CancelRequest ==
  /\ clientInitiated
  /\ \E r \in 1..Len(runs) :
       /\ r \notin cancelled
       /\ events < MaxEvents
       /\ Becomes(cancel(Counted, r))

ChoicesFor(s, tick) ==
  CASE tick.fn = "lint" -> LintOutcomes
    [] tick.fn = "step" -> BehavioursFor(s, tick.run)
    [] OTHER -> {"ret"}

\* A timer armed by delay fires.
TimerFire ==
  \E tick \in hostTimers : \E c \in ChoicesFor(State, tick) :
    Becomes(timerCallback(State, tick, c))

\* An immediate armed by immediate fires.
ImmediateFire ==
  \E tick \in hostImmediates : \E c \in ChoicesFor(State, tick) :
    Becomes(immediateCallback(State, tick, c))

\* The promise of the type-inference producer resolves: checkOne goes on.
ProducerResolve ==
  \E r \in 1..Len(runs) : \E d \in TypeResults :
    /\ runs[r].kind = "diag"
    /\ runs[r].await
    /\ Becomes(checkOneResume(State, r, d))

\* The promise of the type-inference producer rejects: checkOne ends there,
\* its own promise rejected and not awaited by anyone.
ProducerReject ==
  \E r \in 1..Len(runs) :
    /\ runs[r].kind = "diag"
    /\ runs[r].await
    /\ Becomes([State EXCEPT !.runs[r].await = FALSE])

\* The forest loses a file's tree (the file was deleted or closed).
Removable == {"b"}

TreeRemoved ==
  /\ events < MaxEvents
  /\ \E uri \in trees \cap Removable : Becomes([Counted EXCEPT !.trees = @ \ {uri}])

\* connection.onDidChangeWatchedFiles with deleted files.
DeletedLists == {<<"a">>, <<"b", "a">>}

FileDeleted ==
  /\ events < MaxEvents
  /\ \E deleted \in DeletedLists : Becomes(onDidChangeWatchedFiles(Counted, deleted))

\* connection.onDidChangeConfiguration; what the lint rules then do per file.
ConfigOutcomes ==
  {[f \in Files |-> [ok |-> TRUE, d |-> <<"l">>]],
   [f \in Files |-> IF f = "a" THEN [ok |-> FALSE, d |-> <<>>]
                                ELSE [ok |-> TRUE, d |-> <<>>]]}

ConfigChange ==
  /\ events < MaxEvents
  /\ \E disable \in BOOLEAN, outcomes \in ConfigOutcomes :
       Becomes(onDidChangeConfiguration(Counted, disable, outcomes))

\* A file was opened or saved and the promise of the elm make producer
\* resolves: getElmMakeDiagnostics goes on.
ElmMakeResolve ==
  /\ events < MaxEvents
  /\ \E result \in MakeResults : Becomes(getElmMakeDiagnosticsResume(Counted, result))

\* ----------------------------------------------------------- specification

Idle ==
  [timerHandle |-> NoTick, immediateId |-> NoTick, cancellationToken |-> 0,
   done |-> 0, hostTimers |-> {}, hostImmediates |-> {}, cancelled |-> {},
   runs |-> <<>>, changeSeq |-> 0, pendingRequest |-> NoReq,
   pendingDiagnostics |-> <<>>, delayerArmed |-> FALSE,
   currentDiagnostics |-> [f \in Files |-> NoFD], clientInitiated |-> FALSE,
   openFiles |-> <<>>, trees |-> Files, events |-> 0,
   doneCount |-> [r \in RunIds |-> 0],
   clientSettings |-> [disableElmLSDiagnostics |-> FALSE],
   workspace |-> NoWorkspace, lintTree |-> NoTree,
   lintDiagnostics |-> <<>>, log |-> <<>>]

OpenChoices == {<<"a">>}

\* The state the constructor of DiagnosticsProvider leaves (lines 71-167).
Init ==
  \E ci \in BOOLEAN, open \in OpenChoices :
    LET s0 == [Idle EXCEPT !.clientInitiated = ci, !.openFiles = open]
    IN Is(IF ci THEN s0 ELSE [requestAllDiagnostics(s0) EXCEPT !.log = <<>>])

Next ==
  \/ DocumentChange
  \/ TreeChange
  \/ DelayerFire
  \/ Interrupt
  \/ GetDiagnosticsRequest
  \/ CancelRequest
  \/ TimerFire
  \/ ImmediateFire
  \/ ProducerResolve
  \/ ProducerReject
  \/ TreeRemoved
  \/ FileDeleted
  \/ ConfigChange
  \/ ElmMakeResolve

Spec == Init /\ [][Next]_vars

\* ------------------------------------------------------------------------
\* The scheduler on its own, driven by an arbitrary client: every startNew
\* passes its own token and done callback and an action that may return,
\* schedule, throw or suspend (see Behaviours).

\* A client calls startNew(token, action, done); pre: the token is already
\* cancelled.
OpStartNew ==
  /\ Len(runs) < MaxRuns
  /\ \E pre \in BOOLEAN :
       LET r == Len(runs) + 1
           s0 == [State EXCEPT !.runs = Append(@, [kind |-> "gen", files |-> <<>>,
                                                   seq |-> -1, index |-> 0,
                                                   await |-> FALSE,
                                                   fuel |-> MaxTicks,
                                                   stepped |-> 0,
                                                   cancelAt |-> -1])]
           s1 == IF pre THEN cancel(s0, r) ELSE s0
       IN \E b \in BehavioursFor(s1, r) : Becomes(startNew(s1, r, b))

\* The owner of a token cancels it.
OpCancel ==
  \E r \in 1..Len(runs) :
    /\ r \notin cancelled
    /\ Becomes(cancel(State, r))

\* A suspended client function goes on.
OpResume ==
  \E r \in 1..Len(runs) :
    /\ runs[r].kind = "gen"
    /\ runs[r].await
    /\ \E b \in ResumeBehaviours \cap BehavioursFor(State, r) :
         Becomes(stepResume(State, r, b))

OpInit == Is(Idle)

OpNext ==
  \/ OpStartNew
  \/ OpCancel
  \/ OpResume
  \/ TimerFire
  \/ ImmediateFire

OpSpec == OpInit /\ [][OpNext]_vars

\* The host runs every armed timer and immediate eventually.
OpFairSpec == OpSpec /\ WF_vars(TimerFire) /\ WF_vars(ImmediateFire)

\* ------------------------------------------------------------------------
\* The pending queue and the drain on their own (server-initiated mode, with
\* any set of open files): files are marked, the debounce fires, requests are
\* interrupted, documents change; no producer answers.
DrainOpenChoices == {<<>>, <<"a">>, <<"b", "a">>}

DrainInit ==
  \E open \in DrainOpenChoices :
    Is([requestAllDiagnostics([Idle EXCEPT !.openFiles = open]) EXCEPT !.log = <<>>])

DrainNext ==
  \/ DocumentChange
  \/ TreeChange
  \/ DelayerFire
  \/ Interrupt
  \/ TimerFire

DrainSpec == DrainInit /\ [][DrainNext]_vars

\* ------------------------------------------------------------------------
\* The runs of getDiagnostics on their own (client-initiated mode): requests
\* start runs, the host fires their ticks, the producer answers, documents
\* change, trees disappear, requests are cancelled.
RunInit == Is([Idle EXCEPT !.clientInitiated = TRUE, !.openFiles = <<"a">>])

RunNext ==
  \/ GetDiagnosticsRequest
  \/ CancelRequest
  \/ DocumentChange
  \/ TimerFire
  \/ ImmediateFire
  \/ ProducerResolve
  \/ ProducerReject
  \/ TreeRemoved

RunSpec == RunInit /\ [][RunNext]_vars

\* ------------------------------------------------------------------------
\* Server-initiated diagnostics with a host that runs every armed timer and
\* immediate and a type-inference producer whose promises resolve: files are
\* marked, requests are interrupted and documents change a bounded number of
\* times, after which only the debounce timer, the ticks and the producer
\* act.
LiveInit ==
  Is([requestAllDiagnostics([Idle EXCEPT !.openFiles = <<"a">>]) EXCEPT !.log = <<>>])

LiveNext ==
  \/ DocumentChange
  \/ TreeChange
  \/ Interrupt
  \/ DelayerFire
  \/ TimerFire
  \/ ImmediateFire
  \/ ProducerResolve

\* What the host owes: a step that takes the debounce timer from armed to
\* not armed is a DelayerFire step, and it can be taken whenever the timer is
\* armed; a timer or an immediate leaves the armed ones when its callback is
\* run (TimerFire, ImmediateFire), which can be done whenever one is armed.
DelayerRuns == delayerArmed /\ Len(runs) < MaxRuns /\ delayerArmed' = FALSE
TimerRuns == \E tick \in hostTimers : hostTimers' = hostTimers \ {tick}
ImmediateRuns == \E tick \in hostImmediates : hostImmediates' = hostImmediates \ {tick}

LiveSpec ==
  /\ LiveInit
  /\ [][LiveNext]_vars
  /\ WF_delayerArmed(DelayerRuns)
  /\ WF_hostTimers(TimerRuns)
  /\ WF_hostImmediates(ImmediateRuns)
  /\ WF_vars(ProducerResolve)

\* ------------------------------------------------------------------------
\* The per-file store on its own: updateDiagnostics called by any of its
\* callers with any kind and list, and the handlers that write the store
\* outside a run.

\* The lists a producer of the kind can hand over.
KindLists(kind) ==
  CASE kind = "ElmLS" -> LintResults
    [] kind = "TypeInference" -> TypeResults
    [] OTHER -> {<<>>, <<"m">>}

\* Some caller calls updateDiagnostics(uri, kind, diagnostics).
UpdateCall ==
  \E uri \in Files, kind \in Kinds : \E d \in KindLists(kind) :
    Becomes(updateDiagnostics(State, 0, uri, kind, d))

StoreInit == Is(Idle)

StoreNext ==
  \/ UpdateCall
  \/ FileDeleted
  \/ ConfigChange
  \/ ElmMakeResolve
  \/ TreeRemoved

StoreSpec == StoreInit /\ [][StoreNext]_vars

\* ------------------------------------------------------------------------
\* ElmLsDiagnostics: the lint rules, on the syntax facts their queries read.
\* An import clause is [module, as, exposing]: the module name, the alias of
\* its as_clause ("" without one) and the exposed values of its exposing list
\* (<<>> without one).  A top-level value declaration is [name, refs]; a
\* reference in its body is [q, text]: a value_expr whose name is text,
\* qualified with q ("" if it is not qualified).

\* Mutant of Checks: the unused-pattern rule is run, and its findings are
\* put, after the rule for type aliases.
Checks_PatternsLate ==
  <<"getUnusedImportDiagnostics",
    "getUnusedImportValueAndTypeDiagnostics",
    "getUnusedImportAliasDiagnostics",
    "getCaseBranchMapNothingToNothingDiagnostics",
    "getBooleanCaseExpressionDiagnostics",
    "getDropConcatOfListsDiagnostics",
    "getDropConsOfItemAndListDiagnostics",
    "getUseConsOverConcatDiagnostics",
    "getSingleFieldRecordDiagnostics",
    "getUnnecessaryListConcatDiagnostics",
    "getUnnecessaryPortModuleDiagnostics",
    "getFullyAppliedOperatorAsPrefixDiagnostics",
    "getUnusedTypeAliasDiagnostics",
    "getUnusedPatternVariableDiagnostics",
    "getUnusedValueConstructorDiagnostics">>

\* The rules in the order of the array createDiagnostics builds
\* (elmLsDiagnostics.ts:338-354).
Checks ==
  <<"getUnusedImportDiagnostics",
    "getUnusedImportValueAndTypeDiagnostics",
    "getUnusedImportAliasDiagnostics",
    "getUnusedPatternVariableDiagnostics",
    "getCaseBranchMapNothingToNothingDiagnostics",
    "getBooleanCaseExpressionDiagnostics",
    "getDropConcatOfListsDiagnostics",
    "getDropConsOfItemAndListDiagnostics",
    "getUseConsOverConcatDiagnostics",
    "getSingleFieldRecordDiagnostics",
    "getUnnecessaryListConcatDiagnostics",
    "getUnnecessaryPortModuleDiagnostics",
    "getFullyAppliedOperatorAsPrefixDiagnostics",
    "getUnusedTypeAliasDiagnostics",
    "getUnusedValueConstructorDiagnostics">>

\* The code a rule gives its diagnostics (the rules whose findings are taken
\* from the tree record).
CodeOf(check) ==
  CASE check = "getCaseBranchMapNothingToNothingDiagnostics" -> "map_nothing_to_nothing"
    [] check = "getBooleanCaseExpressionDiagnostics" -> "boolean_case_expr"
    [] check = "getDropConcatOfListsDiagnostics" -> "drop_concat_of_lists"
    [] check = "getDropConsOfItemAndListDiagnostics" -> "drop_cons_of_item_and_list"
    [] check = "getUseConsOverConcatDiagnostics" -> "use_cons_over_concat"
    [] check = "getSingleFieldRecordDiagnostics" -> "single_field_record"
    [] check = "getUnnecessaryListConcatDiagnostics" -> "unnecessary_list_concat"
    [] check = "getUnnecessaryPortModuleDiagnostics" -> "unnecessary_port_module"
    [] check = "getFullyAppliedOperatorAsPrefixDiagnostics" -> "no_uncurried_prefix"
    [] OTHER -> "unused_type_alias"

\* A diagnostic: its code, the node whose range it spans and that node's name.
Diagnostic(code, node, text) == [code |-> code, node |-> node, text |-> text]

\* The references of all value declarations of the tree.
AllRefs(tree) == UNION {tree.decls[i].refs : i \in 1..Len(tree.decls)}

\* elmLsDiagnostics.ts:473-511
getUnusedImportDiagnostics(tree) ==
  LET moduleImport(imp) == imp.exposing = <<>> /\ imp.as = ""
      moduleImports == SelectSeq(tree.imports, moduleImport)
      references(imp) == {r \in AllRefs(tree) : r.q = imp.module}
      unused(imp) == references(imp) = {}
      make(imp) == Diagnostic("unused_import", "import_clause", imp.module)
      kept == SelectSeq(moduleImports, unused)
  IN [k \in 1..Len(kept) |-> make(kept[k])]

\* The exposed values of the import clauses, in the order of the file.
RECURSIVE exposedValues(_)
exposedValues(imports) ==
  IF imports = <<>> THEN <<>>
  ELSE Head(imports).exposing \o exposedValues(Tail(imports))

\* elmLsDiagnostics.ts:513-555
getUnusedImportValueAndTypeDiagnostics(tree) ==
  LET references(v) == {r \in AllRefs(tree) : r.q = "" /\ r.text = v}
      unused(v) == references(v) = {}
      make(v) == Diagnostic("unused_imported_value", "exposed_value", v)
      kept == SelectSeq(exposedValues(tree.imports), unused)
  IN [k \in 1..Len(kept) |-> make(kept[k])]

\* elmLsDiagnostics.ts:557-585
getUnusedImportAliasDiagnostics(tree) ==
  LET hasAlias(imp) == imp.as # ""
      moduleAliases == SelectSeq(tree.imports, hasAlias)
      references(imp) == {r \in AllRefs(tree) : r.q = imp.as}
      unused(imp) == references(imp) = {}
      make(imp) == Diagnostic("unused_alias", "as_clause", imp.as)
      kept == SelectSeq(moduleAliases, unused)
  IN [k \in 1..Len(kept) |-> make(kept[k])]

\* elmLsDiagnostics.ts:587-678, for the names of top-level value declarations
\* (scope.type = "file").  The matches of patternReferencesQuery (311-328)
\* among which an outside reference is looked for: the value_expr nodes with
\* the name's text, each inside a top-level declaration; the exposed_value
\* nodes with that text, in the module declaration or in an import clause,
\* inside none; and the exposing list of a module exposing (..).
getUnusedPatternVariableDiagnostics(tree) ==
  LET n == Len(tree.decls)
      index == [i \in 1..n |-> i]
      valueRefs(i) ==
        {j \in 1..n : \E r \in tree.decls[j].refs :
                        r.q = "" /\ r.text = tree.decls[i].name}
      exposedRefs(i) ==
        \/ tree.decls[i].name \in tree.exposed
        \/ tree.decls[i].name \in SeqToSet(exposedValues(tree.imports))
      outsideRef(i) ==
        \/ valueRefs(i) \ {i} # {}
        \/ exposedRefs(i)
        \/ tree.exposingAll
      unused(i) == ~outsideRef(i)
      make(i) == Diagnostic("unused_top_level", "lower_case_identifier",
                            tree.decls[i].name)
      kept == SelectSeq(index, unused)
  IN [k \in 1..Len(kept) |-> make(kept[k])]

\* The captures of unionVariantsQuery (elmLsDiagnostics.ts:300-309): the
\* variants with the name of their type, in the order of the file.
RECURSIVE unionVariants(_)
unionVariants(types) ==
  IF types = <<>> THEN <<>>
  ELSE [k \in 1..Len(Head(types).variants) |->
          [unionVariant |-> Head(types).variants[k], typeName |-> Head(types).name]]
       \o unionVariants(Tail(types))

\* The text of an exposed_type node: the type's name, followed by (..) when
\* it exposes the constructors.
ExposedTypeText(e) == IF e.all THEN <<e.name, "(..)">> ELSE <<e.name>>

\* elmLsDiagnostics.ts:946-992.  The matches counted as references: the
\* exposed_type nodes, of the module declaration or of an import clause,
\* whose text is the type's name followed by (..); the value_expr nodes, the
\* names of type references and the patterns of case branches whose text is
\* the variant's name.
getUnusedValueConstructorDiagnostics(tree) ==
  LET exposedRefs(v) ==
        {e \in tree.exposedTypes \cup tree.importTypes :
           ExposedTypeText(e) = <<v.typeName, "(..)">>}
      valueRefs(v) == {r \in AllRefs(tree) : r.q = "" /\ r.text = v.unionVariant}
      typeRefs(v) == {r \in tree.typeRefs : r = v.unionVariant}
      variantRefs(v) == {r \in tree.casePatterns : r = v.unionVariant}
      unused(v) == /\ exposedRefs(v) = {} /\ valueRefs(v) = {}
                   /\ typeRefs(v) = {} /\ variantRefs(v) = {}
      make(v) == Diagnostic("unused_value_constructor", "union_variant",
                            v.unionVariant)
      kept == SelectSeq(unionVariants(tree.types), unused)
  IN [k \in 1..Len(kept) |-> make(kept[k])]

\* What one rule returns for the tree.
checkResult(tree, check) ==
  CASE check = "getUnusedImportDiagnostics" -> getUnusedImportDiagnostics(tree)
    [] check = "getUnusedImportValueAndTypeDiagnostics" ->
         getUnusedImportValueAndTypeDiagnostics(tree)
    [] check = "getUnusedImportAliasDiagnostics" ->
         getUnusedImportAliasDiagnostics(tree)
    [] check = "getUnusedPatternVariableDiagnostics" ->
         getUnusedPatternVariableDiagnostics(tree)
    [] check = "getUnusedValueConstructorDiagnostics" ->
         getUnusedValueConstructorDiagnostics(tree)
    [] OTHER -> IF check \in tree.found
                THEN <<Diagnostic(CodeOf(check), "", "")>>
                ELSE <<>>

\* [...a(tree), ...b(tree), ...]
RECURSIVE spread(_, _)
spread(tree, checks) ==
  IF checks = <<>> THEN <<>>
  ELSE checkResult(tree, Head(checks)) \o spread(tree, Tail(checks))

\* elmLsDiagnostics.ts:337-357: the try block of createDiagnostics, with the
\* array it returns or the note that a rule threw.
lintOutcome(tree) ==
  IF tree.throws # "none"
  THEN [ok |-> FALSE, d |-> <<>>]
  ELSE [ok |-> TRUE, d |-> spread(tree, Checks)]

\* Some caller calls elmLsDiagnostics.createDiagnostics(treeContainer, workspace).
createDiagnosticsCall(s) ==
  LET outcome == lintOutcome(s.lintTree)
      s1 == Emit(s, Ev("lint", 0, 0, "ElmLS", "", 0))
      s2 == createDiagnosticsLog(s1, 0, "", outcome)
  IN [s2 EXCEPT !.lintDiagnostics = createDiagnostics(outcome)]

CreateDiagnosticsCall ==
  /\ log = <<>>
  /\ Becomes(createDiagnosticsCall(State))

\* The trees the rules are run on.
ImportLists ==
  {<<>>}
  \cup {<<[module |-> "Foo", as |-> a, exposing |-> e]>> :
          a \in {"", "F"}, e \in {<<>>, <<"bar">>}}
  \cup {<<[module |-> "Foo", as |-> "", exposing |-> <<>>],
          [module |-> "Baz", as |-> "F", exposing |-> <<"bar">>]>>}

Refs ==
  {[q |-> "", text |-> "foo"], [q |-> "", text |-> "bar"],
   [q |-> "Foo", text |-> "x"], [q |-> "F", text |-> "x"]}

RefSets == {{}} \cup {{r} : r \in Refs}

DeclNames == {"foo", "bar", "main"}

Decls == [name : DeclNames, refs : RefSets]

DeclLists ==
  {<<>>} \cup {<<d>> : d \in Decls}
  \cup {p \in {<<d, e>> : d \in Decls, e \in Decls} : p[1].name # p[2].name}

Exposings ==
  {[exposingAll |-> TRUE, exposed |-> {}],
   [exposingAll |-> FALSE, exposed |-> {}],
   [exposingAll |-> FALSE, exposed |-> {"main"}]}

OtherChecks ==
  SeqToSet(Checks) \ {"getUnusedImportDiagnostics",
                      "getUnusedImportValueAndTypeDiagnostics",
                      "getUnusedImportAliasDiagnostics",
                      "getUnusedPatternVariableDiagnostics",
                      "getUnusedValueConstructorDiagnostics"}

\* With the findings of the other rules comes a union type whose variant
\* nothing refers to.
FoundChoices ==
  {[found |-> {}, types |-> <<>>],
   [found |-> OtherChecks, types |-> <<[name |-> "T", variants |-> <<"A">>]>>],
   [found |-> {"getBooleanCaseExpressionDiagnostics"},
    types |-> <<[name |-> "T", variants |-> <<"A">>]>>]}

ThrowChoices == {"none", "getSingleFieldRecordDiagnostics"}

LintTrees ==
  {[exposingAll |-> x.exposingAll, exposed |-> x.exposed, imports |-> imports,
    decls |-> decls, found |-> f.found, throws |-> throws, types |-> f.types,
    exposedTypes |-> {}, importTypes |-> {}, typeRefs |-> {},
    casePatterns |-> {}] :
     x \in Exposings, imports \in ImportLists, decls \in DeclLists,
     f \in FoundChoices, throws \in ThrowChoices}

LintInit == \E t \in LintTrees : Is([Idle EXCEPT !.lintTree = t])

LintNext == CreateDiagnosticsCall

LintSpec == LintInit /\ [][LintNext]_vars

\* ------------------------------------------------------ module resolution
\* Strings are sequences of tokens: names, "." and "/".

\* moduleName.split("."): the parts between the dots.
RECURSIVE split(_)
split(text) ==
  IF \A i \in 1..Len(text) : text[i] # "."
  THEN <<text>>
  ELSE LET dot == CHOOSE i \in 1..Len(text) :
                    text[i] = "." /\ \A j \in 1..(i - 1) : text[j] # "."
       IN <<SubSeq(text, 1, dot - 1)>> \o split(SubSeq(text, dot + 1, Len(text)))

\* parts.join("/")
RECURSIVE join(_)
join(parts) ==
  IF Len(parts) = 0 THEN <<>>
  ELSE IF Len(parts) = 1 THEN parts[1]
  ELSE parts[1] \o <<"/">> \o join(Tail(parts))

\* path.join(a, b): the two joined with a separator, separators that follow
\* one another made one.
RECURSIVE normalize(_)
normalize(p) ==
  IF Len(p) < 2 THEN p
  ELSE IF p[1] = "/" /\ p[2] = "/" THEN normalize(Tail(p))
  ELSE <<p[1]>> \o normalize(Tail(p))

pathJoin(a, b) == normalize(a \o <<"/">> \o b)

\* URI.file(path).toString()
URIfile(p) == <<"file://">> \o p

\* part_000:20
baseUri == <<"/", "sources", "/", "src", "/">>

\* Imports.getVirtualImports(): the module names of its import clauses.
VirtualImports == <<(<<"Basics">>), (<<"List">>)>>

\* part_000:93-102: the URI a source is put into the forest with.
ForestUri(fileName) == URIfile(baseUri \o fileName)

\* resolvedModules.set(moduleName, uri) on a map kept in insertion order.
MapSet(map, moduleName, uri) ==
  IF \E i \in 1..Len(map) : map[i].moduleName = moduleName
  THEN [i \in 1..Len(map) |->
          IF map[i].moduleName = moduleName
          THEN [moduleName |-> moduleName, uri |-> uri] ELSE map[i]]
  ELSE Append(map, [moduleName |-> moduleName, uri |-> uri])

\* Mutant of resolveImport: the module name is not turned into a path.
resolveImport_NoPath(forest, map, moduleName) ==
  IF moduleName = <<>> THEN map
  ELSE LET modulePath == moduleName \o <<".", "elm">>
           uri == URIfile(pathJoin(baseUri, modulePath))
       IN IF uri \notin forest THEN map ELSE MapSet(map, moduleName, uri)

\* part_000:113-129: the body of importClauses.forEach for a clause whose
\* upper_case_qid has the text moduleName (empty: there is none).
resolveImport(forest, map, moduleName) ==
  IF moduleName = <<>> THEN map
  ELSE LET modulePath == join(split(moduleName)) \o <<".", "elm">>
           uri == URIfile(pathJoin(baseUri, modulePath))
       IN IF uri \notin forest THEN map ELSE MapSet(map, moduleName, uri)

RECURSIVE resolveEach(_, _, _)
resolveEach(forest, map, clauses) ==
  IF clauses = <<>> THEN map
  ELSE resolveEach(forest, resolveImport(forest, map, Head(clauses)), Tail(clauses))

\* part_000:104-133
resolveModules(s) ==
  LET importClauses == VirtualImports \o s.workspace.importClauses
  IN [s EXCEPT !.workspace.resolvedModules =
                 resolveEach(s.workspace.forest, <<>>, importClauses),
               !.workspace.resolved = TRUE]

\* part_000:37-39: the constructor resolves the modules of a tree.
ResolveModules ==
  /\ ~workspace.resolved
  /\ Becomes(resolveModules(State))

\* The file names given to the constructor and the import clauses of the
\* tree, by the text of their module name.
FileNames ==
  {<<"Foo", ".", "elm">>, <<"Foo", "/", "Bar", ".", "elm">>,
   <<"Foo", ".", "Bar", ".", "elm">>, <<"Basics", ".", "elm">>,
   <<"Baz", ".", "elm">>}

ModuleNames ==
  {<<"Foo">>, <<"Foo", ".", "Bar">>, <<"Baz">>, <<"Qux">>, <<>>}

ImportClauseLists ==
  {<<>>} \cup {<<m>> : m \in ModuleNames}
  \cup {<<m, n>> : m \in {<<"Foo">>, <<"Foo", ".", "Bar">>},
                    n \in {<<"Foo">>, <<"Qux">>}}

ResolveInit ==
  \E sources \in SUBSET FileNames, clauses \in ImportClauseLists :
    Is([Idle EXCEPT !.workspace =
          [NoWorkspace EXCEPT !.forest = {ForestUri(f) : f \in sources},
                              !.importClauses = clauses]])

ResolveNext == ResolveModules

ResolveSpec == ResolveInit /\ [][ResolveNext]_vars

\* The trees with union types the value constructor rule is run on: a
\* module that exposes everything, nothing, T(..) or T; an import clause
\* that exposes a type T(..) or none; one or two types with one or two
\* variants; and a reference to a variant as value, in a type reference or
\* as the pattern of a case branch.
WildcardExposed == [name |-> "T", all |-> TRUE]

TypeExposings ==
  {[exposingAll |-> TRUE, exposedTypes |-> {}],
   [exposingAll |-> FALSE, exposedTypes |-> {}],
   [exposingAll |-> FALSE, exposedTypes |-> {WildcardExposed}],
   [exposingAll |-> FALSE, exposedTypes |-> {[name |-> "T", all |-> FALSE]}]}

TypeLists ==
  {<<[name |-> "T", variants |-> <<"A">>]>>,
   <<[name |-> "T", variants |-> <<"A", "B">>]>>,
   <<[name |-> "T", variants |-> <<"A">>], [name |-> "U", variants |-> <<"B">>]>>}

ValueRefs ==
  {<<>>} \cup {<<[name |-> "main", refs |-> {[q |-> "", text |-> v]}]>> :
                 v \in {"A", "B"}}

TypeTrees ==
  {[NoTree EXCEPT !.exposingAll = x.exposingAll, !.exposedTypes = x.exposedTypes,
                  !.exposed = {"main"}, !.importTypes = i, !.types = ts,
                  !.decls = decls, !.typeRefs = tr, !.casePatterns = cp] :
     x \in TypeExposings, i \in {{}, {WildcardExposed}}, ts \in TypeLists,
     decls \in ValueRefs, tr \in {{}, {"A"}}, cp \in {{}, {"A"}, {"B"}}}

TypeInit == \E t \in TypeTrees : Is([Idle EXCEPT !.lintTree = t])

TypeSpec == TypeInit /\ [][LintNext]_vars

\* ------------------------------------------------------------------------
\* Properties.  LogEvents(e) are the positions of the last handler's
\* sub-events of kind e.
LogEvents(e) == {i \in 1..Len(log) : log[i].e = e}

\* The updateDiagnostics calls the last handler made on behalf of a run.
RunUpdates == {i \in LogEvents("update") : log[i].by # 0}

\* C1 (as claimed): a run whose captured changeSeq differs from the live one
\* makes no updateDiagnostics call, of either kind, for any file.
C1_NoUpdateWhenStale ==
  \A i \in RunUpdates : runs[log[i].by].seq = changeSeq

\* C2 (as claimed): once a newer run has been started on the scheduler, an
\* older run publishes nothing, schedules no tick and clears no tick of a
\* newer run.
C2_SupersededIsNoOp ==
  \A i \in 1..Len(log) :
    (log[i].by # 0 /\ log[i].by < Len(runs)) =>
      /\ log[i].e \notin {"update", "schedule"}
      /\ ~(log[i].e = "clear" /\ log[i].run > log[i].by)

\* C3: a drain that finds a pendingRequest cancels its token before it starts
\* the new run, makes the new request the pendingRequest, and the new run's
\* file list contains every file of the old request.  (Without client-
\* initiated diagnostics only a drain starts a run.)
C3_DrainSupersedes ==
  [][(~clientInitiated /\ pendingRequest # NoReq /\ Len(runs') > Len(runs)) =>
       LET old == pendingRequest
           new == Len(runs')
       IN /\ \E j \in 1..Len(log') : \E i \in (j + 1)..Len(log') :
               /\ log'[j].e = "cancel" /\ log'[j].run = old.token
               /\ log'[i].e = "start" /\ log'[i].run = new
          /\ old.token \in cancelled'
          /\ pendingRequest'.token = new
          /\ pendingRequest'.token # old.token
          /\ pendingRequest'.files = runs'[new].files
          /\ SeqToSet(old.files) \subseteq SeqToSet(runs'[new].files)]_vars

\* C3's case: a drain superseded a request that held a file ("b") which is
\* neither pending nor open.
C3_Witness ==
  /\ ~clientInitiated
  /\ Len(runs) = 2
  /\ LogEvents("start") # {}
  /\ \E j \in LogEvents("cancel") : log[j].run = 1
  /\ pendingRequest.token = 2
  /\ "b" \in SeqToSet(runs[2].files)
  /\ doneCount[1] = 1

\* C4 (as claimed): the drain re-triggered by interuptDiagnostics starts a run
\* whose file list contains every file of the request the interrupt cancelled.
\* (Without client-initiated diagnostics, a run exists and pendingRequest is
\* undefined only after an interrupt.)
C4_InterruptLosesNoFile ==
  [][(~clientInitiated /\ pendingRequest = NoReq /\ Len(runs) >= 1
        /\ Len(runs') > Len(runs)) =>
       SeqToSet(runs[Len(runs)].files) \subseteq SeqToSet(runs'[Len(runs')].files)]_vars

\* C5: interuptDiagnostics(f) calls f once and returns what f returned; with
\* a request in flight the token is cancelled before f and the drain is
\* triggered after f; with none, nothing is cancelled and nothing triggered.
C5_Interrupt ==
  [][(\E i \in 1..Len(log') : log'[i].e = "f") =>
       LET L == log'
           F == {i \in 1..Len(L) : L[i].e = "f"}
           Cn == {i \in 1..Len(L) : L[i].e = "cancel"}
           Tr == {i \in 1..Len(L) : L[i].e = "trigger"}
       IN /\ Cardinality(F) = 1
          /\ L[Len(L)].e = "return"
          /\ \A i \in F : L[Len(L)].val = L[i].val
          /\ IF pendingRequest # NoReq
             THEN /\ \E c \in Cn : \A i \in F : c < i /\ L[c].run = pendingRequest.token
                  /\ pendingRequest.token \in cancelled'
                  /\ Tr # {}
                  /\ \A k \in Tr : \A i \in F : i < k
                  /\ delayerArmed'
             ELSE /\ Cn = {} /\ Tr = {}
                  /\ cancelled' = cancelled
                  /\ delayerArmed' = delayerArmed]_vars

\* C5's case: an interrupt found a request in flight.
C5_Witness ==
  /\ LogEvents("f") # {}
  /\ LogEvents("cancel") # {}
  /\ LogEvents("trigger") # {}
  /\ pendingRequest = NoReq
  /\ Len(runs) >= 1

\* C6: the done callback of every startNew call is invoked at most once and,
\* the host firing its timers and immediates, eventually once.
C6_DoneExactlyOnce ==
  /\ [](\A r \in RunIds : doneCount[r] <= 1)
  /\ \A r \in RunIds : [](r <= Len(runs) => <>(doneCount[r] = 1))

\* C6's case: runs have ended, one of them by an exception.
C6_Witness ==
  /\ Len(runs) = MaxRuns
  /\ \A r \in RunIds : doneCount[r] = 1
  /\ LogEvents("threw") # {}

\* C7: startNew, called while ticks of previous runs are pending, leaves none
\* of them armed, and the done callback of their runs has been invoked before
\* the new action runs.
C7_StartNewClearsPrevious ==
  [][Len(runs') > Len(runs) =>
       LET new == Len(runs')
           L == log'
       IN /\ \A t \in hostTimers' \cup hostImmediates' : t.run = new
          /\ \A t \in hostTimers \cup hostImmediates :
               \/ doneCount[t.run] >= 1
               \/ \E j \in 1..Len(L) :
                    /\ L[j].e = "done" /\ L[j].run = t.run
                    /\ \A i \in 1..Len(L) :
                         (L[i].e = "fn" /\ L[i].run = new) => j < i]_vars

\* C7's case: startNew cleared a pending tick of the previous run and called
\* its done, and the new action ran.
C7_Witness ==
  /\ Len(runs) = 2
  /\ \E i \in LogEvents("clear") : log[i].run = 1 /\ log[i].by = 2
  /\ \E i \in LogEvents("done") : log[i].run = 1
  /\ \E i \in LogEvents("fn") : log[i].run = 2

\* C8 (as claimed): no tick function scheduled with immediate or delay is
\* invoked while the token given to its run's startNew is cancelled.
C8_TickChecksToken ==
  \A i \in LogEvents("fn") :
    log[i].fn \in {"checkOne", "lint"} => log[i].run \notin cancelled

\* The place (from 0) of a file in a run's list.
IndexOf(files, uri) == CHOOSE k \in 0..(Len(files) - 1) : files[k + 1] = uri

\* C9 (as claimed): a cancelled run calls updateDiagnostics only for files
\* whose per-file step had started when its token was cancelled.
C9_CancelStopsPublishing ==
  \A i \in RunUpdates :
    LET r == log[i].by
    IN r \in cancelled => IndexOf(runs[r].files, log[i].uri) < runs[r].cancelAt

\* What C10 says of a handler in which a function threw, but for the report.
ThrowEndsRun(i) ==
  /\ doneCount[log[i].run] = 1
  /\ hostTimers = {} /\ hostImmediates = {}
  /\ timerHandle = NoTick /\ immediateId = NoTick
  /\ LogEvents("uncaught") = {}

\* C10 (as claimed): a synchronous throw ends the run, is reported to the
\* error console and does not propagate.
C10_ThrowReported ==
  \A i \in LogEvents("threw") :
    /\ ThrowEndsRun(i)
    /\ \E j \in LogEvents("error") : j > i

\* C10 (amended): ... is reported to the error console unless the value thrown
\* is an OperationCanceledException, which is not reported.
C10_ThrowReportedUnlessCancel ==
  \A i \in LogEvents("threw") :
    /\ ThrowEndsRun(i)
    /\ (log[i].fn = "error") <=> (\E j \in LogEvents("error") : j > i)

\* C10's case: a tick function scheduled a timer and threw an error.
C10_Witness ==
  /\ \E i \in LogEvents("threw") : log[i].fn = "error"
  /\ LogEvents("schedule") # {}
  /\ LogEvents("clear") # {}
  /\ LogEvents("error") # {}

\* C11: when the action or a tick function has returned, the run is completed
\* (the stored done callback is invoked, the stored token and done are
\* cleared) if neither a timer nor an immediate is pending, and is left as it
\* is (nothing invoked, token and done kept) if one is pending.
C11_CompletesWhenNothingPending ==
  [][\A i \in {k \in 1..Len(log') : log'[k].e = "fn"} :
       LET L == log'
           starts == {k \in 1..Len(L) : L[k].e = "start"}
           stored == IF starts # {} THEN L[i].run ELSE done
           token == IF starts # {} THEN L[i].run ELSE cancellationToken
           doneAfter == {j \in (i + 1)..Len(L) : L[j].e = "done"}
           returned == \A j \in 1..Len(L) : L[j].e # "threw"
           scheduled == \E j \in (i + 1)..Len(L) : L[j].e = "schedule"
           pending == timerHandle' # NoTick \/ immediateId' # NoTick
       IN returned =>
            IF scheduled \/ pending
            THEN /\ pending
                 /\ doneAfter = {}
                 /\ done' = stored
                 /\ cancellationToken' = token
            ELSE /\ done' = 0
                 /\ cancellationToken' = 0
                 /\ stored # 0 => \E j \in doneAfter : L[j].run = stored]_vars

\* C11's case: a tick function returned with nothing pending and the run was
\* completed by that tick.
C11_Witness ==
  \E i \in LogEvents("fn") :
    /\ log[i].fn = "step"
    /\ LogEvents("threw") = {}
    /\ timerHandle = NoTick /\ immediateId = NoTick
    /\ \E j \in LogEvents("done") : j > i /\ log[j].run = log[i].run

\* C12 (as claimed): no tick function (checkOne or the lint step) of a run
\* begins while a checkOne of another run of the same scheduler is suspended
\* at the type-inference await.
C12_NoOverlappingTicks ==
  \A i \in LogEvents("fn") :
    log[i].fn \in {"checkOne", "lint"} =>
      \A r \in 1..Len(runs) : r # log[i].run => ~runs[r].await

\* The positions in a handler's record L of the events e about file u.
EventsOn(L, e, u) == {i \in 1..Len(L) : L[i].e = e /\ L[i].uri = u}

\* list holds exactly the entries of the three kinds' lists of fd.
IsMergeOf(list, fd) ==
  /\ Len(list) = Len(fd.ElmLS) + Len(fd.TypeInference) + Len(fd.ElmMake)
  /\ SeqToSet(list) =
       SeqToSet(fd.ElmLS) \cup SeqToSet(fd.TypeInference) \cup SeqToSet(fd.ElmMake)

\* C13: the list last sent to the sink for a file is the merge of the file's
\* current lists of the three kinds (a handler that sends nothing for a file
\* leaves its merged list as it was), and an update of one kind leaves the
\* lists of the other kinds as they were.
C13_SentIsMerge ==
  [][\A u \in Files :
       LET L == log'
           sends == EventsOn(L, "send", u)
           ups == EventsOn(L, "update", u)
           old == currentDiagnostics[u]
           new == currentDiagnostics'[u]
       IN /\ sends # {} =>
               \E i \in sends : /\ \A j \in sends : j <= i
                                /\ IsMergeOf(L[i].val, new)
          /\ sends = {} => \A k \in Kinds : new[k] = old[k]
          /\ \A i \in ups :
               (ups = {i} /\ EventsOn(L, "delete", u) = {}) =>
                 \A k \in Kinds \ {L[i].fn} : new[k] = old[k]]_vars

\* C13's case: a file has lists of two kinds, the lint list set last, and the
\* sink was sent both.
C13_Witness ==
  /\ currentDiagnostics["a"].ElmLS = <<"l">>
  /\ currentDiagnostics["a"].TypeInference = <<"t">>
  /\ \E i \in EventsOn(log, "update", "a") : log[i].fn = "ElmLS"
  /\ \E i \in EventsOn(log, "send", "a") : Len(log[i].val) = 2

\* C14: updateDiagnostics notifies the sink exactly when the file's merged
\* list changed, with the full merged list: not for an empty list for a file
\* without entry, not for a list equal to the stored one; and the sink is
\* notified by nothing but updateDiagnostics and deleteDiagnostics.
C14_SendsOnlyOnChange ==
  [][LET L == log'
     IN /\ \A i \in {k \in 1..Len(L) : L[k].e = "update"} :
             LET u == L[i].uri
                 old == currentDiagnostics[u]
                 new == currentDiagnostics'[u]
                 sent == /\ i < Len(L)
                         /\ L[i + 1].e = "send"
                         /\ L[i + 1].uri = u
             IN (EventsOn(L, "update", u) = {i} /\ EventsOn(L, "delete", u) = {}) =>
                  /\ sent <=> FileDiagnosticsGet(new) # FileDiagnosticsGet(old)
                  /\ (~old.has /\ L[i].val = <<>>) => ~sent
                  /\ (old.has /\ old[L[i].fn] = L[i].val) => ~sent
                  /\ sent => IsMergeOf(L[i + 1].val, new)
        /\ \A j \in {k \in 1..Len(L) : L[k].e = "send"} :
             /\ j > 1
             /\ L[j - 1].e \in {"update", "delete"}
             /\ L[j - 1].uri = L[j].uri]_vars

\* C14's case: an update with the list already stored, after which nothing
\* was sent.
C14_Witness ==
  \E i \in LogEvents("update") :
    /\ log[i].val # <<>>
    /\ currentDiagnostics[log[i].uri][log[i].fn] = log[i].val
    /\ LogEvents("send") = {}

\* C15: an entry of currentDiagnostics comes into being only by an update
\* with a non-empty list and goes only by a file-deleted event, which removes
\* the entry and sends the empty list for the file.
C15_EntryLifecycle ==
  [][\A u \in Files :
       LET L == log'
           old == currentDiagnostics[u]
           new == currentDiagnostics'[u]
       IN /\ (~old.has /\ new.has) =>
               \E i \in EventsOn(L, "update", u) : L[i].val # <<>>
          /\ (old.has /\ ~new.has) => EventsOn(L, "delete", u) # {}
          /\ \A i \in EventsOn(L, "delete", u) :
               /\ ~new.has
               /\ i < Len(L)
               /\ L[i + 1].e = "send" /\ L[i + 1].uri = u /\ L[i + 1].val = <<>>]_vars

\* C15's case: a file-deleted event for two files was handled; their entries
\* are gone.
C15_Witness ==
  /\ EventsOn(log, "delete", "a") # {}
  /\ EventsOn(log, "delete", "b") # {}
  /\ ~currentDiagnostics["a"].has
  /\ ~currentDiagnostics["b"].has

\* C16: changeSeq never decreases: a document-change event adds exactly one
\* to it and every other handler leaves it as it is.
C16_ChangeSeqMonotonic ==
  [][IF DocumentChange
     THEN changeSeq' = changeSeq + 1
     ELSE changeSeq' = changeSeq]_vars

\* C16's case: a document change has been counted and other handlers (a
\* drain, a tick, a store handler) have run since.
C16_Witness ==
  /\ changeSeq = MaxChanges
  /\ Len(runs) > 0
  /\ LogEvents("update") # {}
  /\ events > 0

\* The URIs of a pending queue and the time a URI was last marked at.
PendingUris(pd) == {pd[i].uri : i \in 1..Len(pd)}
MarkedAt(pd, u) == pd[CHOOSE i \in 1..Len(pd) : pd[i].uri = u].ts

\* C17: a URI is in the pending queue at most once; getOrderedFiles returns
\* every pending URI once, oldest mark first; and marking a URI (again) makes
\* it the latest, the other URIs staying pending in the order they had.
C17_PendingQueue ==
  /\ [](LET pd == pendingDiagnostics
            o == getOrderedFiles(pd)
        IN /\ \A i, j \in 1..Len(pd) : i # j => pd[i].uri # pd[j].uri
           /\ Len(o) = Len(pd)
           /\ SeqToSet(o) = PendingUris(pd)
           /\ \A i, j \in 1..Len(o) :
                i < j => MarkedAt(pd, o[i]) <= MarkedAt(pd, o[j]))
  /\ [][(LogEvents("trigger")' # {} /\ LogEvents("f")' = {}) =>
         LET pd == pendingDiagnostics
             new == pendingDiagnostics'
             P == PendingUris(pd)
         IN \E u \in PendingUris(new) :
              /\ PendingUris(new) = P \cup {u}
              /\ \A v \in PendingUris(new) : MarkedAt(new, v) <= MarkedAt(new, u)
              /\ \A v, w \in P \ {u} :
                   MarkedAt(pd, v) <= MarkedAt(pd, w)
                     <=> MarkedAt(new, v) <= MarkedAt(new, w)]_vars

\* C17's case: a URI marked before another was marked again, so that the
\* order of the marks is not the order of insertion.
C17_Witness ==
  /\ Len(pendingDiagnostics) = 2
  /\ pendingDiagnostics[1].ts > pendingDiagnostics[2].ts
  /\ getOrderedFiles(pendingDiagnostics) = <<pendingDiagnostics[2].uri,
                                             pendingDiagnostics[1].uri>>
  /\ LogEvents("trigger") # {}

\* The files of list that are not in the set listed, in the order of list.
NotListed(list, listed) ==
  LET Test(u) == u \notin listed IN SelectSeq(list, Test)

\* C18: a drain builds the list of the pending files oldest first, then the
\* files of the prior request not yet listed, then the open files not yet
\* listed; the list has no duplicates; the drain empties the pending queue
\* and starts a run over the list, with the changeSeq of that moment, if and
\* only if the list is not empty.
C18_DrainComposition ==
  [][(delayerArmed /\ ~delayerArmed') =>
       LET o == getOrderedFiles(pendingDiagnostics)
           prior == pendingRequest.files
           e1 == o \o NotListed(prior, SeqToSet(o))
           expected == e1 \o NotListed(openFiles, SeqToSet(e1))
           r == Len(runs')
       IN /\ pendingDiagnostics' = <<>>
          /\ IF expected = <<>>
             THEN /\ runs' = runs
                  /\ LogEvents("start")' = {}
             ELSE /\ r = Len(runs) + 1
                  /\ runs'[r].files = expected
                  /\ Cardinality(SeqToSet(expected)) = Len(expected)
                  /\ runs'[r].seq = changeSeq
                  /\ pendingRequest'.files = expected
                  /\ pendingRequest'.token = r]_vars

\* C18's case: a drain listed a pending file, then a file of the prior request
\* that was not pending, and started the second run after a document change.
C18_Witness ==
  /\ Len(runs) = 2
  /\ ~delayerArmed
  /\ LogEvents("start") # {}
  /\ runs[1].files = <<"a", "b">>
  /\ runs[2].files = <<"b", "a">>
  /\ runs[2].seq = 1

\* C18's other case: a drain found nothing to list and started no run.
C18_WitnessEmpty ==
  /\ ~delayerArmed
  /\ openFiles = <<>>
  /\ pendingRequest = NoReq
  /\ Len(runs) = 1
  /\ pendingDiagnostics = <<>>

\* A step in which the promise a run's checkOne awaits is rejected: the run
\* stops waiting and has published nothing.
Rejected(r) ==
  /\ r <= Len(runs)
  /\ runs[r].await
  /\ ~runs'[r].await
  /\ \A i \in LogEvents("update")' : log'[i].by # r

\* C19 (as claimed): when the type-inference producer rejects or a lint rule
\* throws while a file is analysed, the file's stored list of that kind stays
\* as it was and no notification without its entries is sent.
C19_FailureLeavesResults ==
  [][/\ \A i \in LogEvents("caught")' :
          LET u == log'[i].uri
              old == currentDiagnostics[u].ElmLS
          IN /\ currentDiagnostics'[u].ElmLS = old
             /\ \A j \in EventsOn(log', "send", u) :
                  SeqToSet(old) \subseteq SeqToSet(log'[j].val)
     /\ (\E r \in RunIds : Rejected(r)) =>
          /\ currentDiagnostics' = currentDiagnostics
          /\ LogEvents("send")' = {}]_vars

\* C20 (as claimed): when the type-inference producer rejects for a file of a
\* run that is neither stale nor cancelled nor superseded, and the file is not
\* the last, the run goes on: the step of its next file is armed.
C20_FailureDoesNotAbort ==
  [][\A r \in RunIds :
       (/\ Rejected(r)
        /\ runs[r].seq = changeSeq
        /\ r \notin cancelled
        /\ r = Len(runs)
        /\ runs[r].index + 1 < Len(runs[r].files)) =>
         \E t \in hostTimers' \cup hostImmediates' : t.run = r]_vars

\* The step is the handling of a configuration change with the given
\* disableElmLSDiagnostics setting and lint outcomes.
ConfigStep(disable, outcomes) ==
  /\ events < MaxEvents
  /\ Becomes(onDidChangeConfiguration(Counted, disable, outcomes))

\* C21: a configuration change that disables lint diagnostics leaves every
\* stored file with an empty lint list and its other lists as they were, and
\* notifies the sink once for each file whose merged list changed and for no
\* other file.
C21_DisableClearsLint ==
  [][(\E o \in ConfigOutcomes : ConfigStep(TRUE, o)) =>
       \A u \in Files :
         LET old == currentDiagnostics[u]
             new == currentDiagnostics'[u]
             sends == EventsOn(log', "send", u)
         IN /\ new.has = old.has
            /\ new.ElmLS = <<>>
            /\ new.TypeInference = old.TypeInference
            /\ new.ElmMake = old.ElmMake
            /\ Cardinality(sends) <= 1
            /\ sends # {} <=> FileDiagnosticsGet(new) # FileDiagnosticsGet(old)
            /\ \A i \in sends : IsMergeOf(log'[i].val, new)]_vars

\* C21's case: lint diagnostics were disabled; file a lost its lint list and
\* kept its type-inference list, which the sink was sent; file b, stored
\* without lint list, caused no notification.
C21_Witness ==
  /\ LogEvents("caught") = {}
  /\ \E i \in EventsOn(log, "update", "a") : log[i].fn = "ElmLS" /\ log[i].val = <<>>
  /\ \E i \in EventsOn(log, "send", "a") : log[i].val = <<"t">>
  /\ EventsOn(log, "update", "b") # {}
  /\ EventsOn(log, "send", "b") = {}
  /\ currentDiagnostics["b"].has

StepEvents(e, r) == {i \in 1..Len(log') : log'[i].e = e /\ log'[i].by = r}

\* The file run r is at.
CurrentFile(r) == runs[r].files[runs[r].index + 1]

\* The step made run r advance as goNext does: the index went up by one and,
\* if the list has a file left, checkOne was armed for it with next.delay.
Advanced(r) ==
  LET index == runs[r].index + 1
      tick == Tick(r, "checkOne", index)
  IN /\ runs'[r].index = index
     /\ IF Len(runs[r].files) > index
        THEN /\ timerHandle' = tick
             /\ tick \in hostTimers'
             /\ \E i \in StepEvents("schedule", r) : log'[i].fn = "checkOne"
        ELSE /\ StepEvents("schedule", r) = {}
             /\ \A h \in hostTimers' : h.run # r

\* C23: when checkOne finds no tree container for its file, the producer is
\* not called, updateDiagnostics is not called and the stored diagnostics
\* stay, and the run advances as it does after the lint step of a processed
\* file.
C23_SkipsFileWithoutTree ==
  [][/\ \A tick \in hostTimers :
          ( /\ tick.fn = "checkOne"
            /\ Becomes(timerCallback(State, tick, "ret"))
            /\ StepEvents("fn", tick.run) # {}
            /\ changeSeq = runs[tick.run].seq
            /\ CurrentFile(tick.run) \notin trees )
          => /\ ~runs'[tick.run].await
             /\ \A i \in 1..Len(log') : log'[i].e \notin {"update", "send"}
             /\ currentDiagnostics' = currentDiagnostics
             /\ Advanced(tick.run)
     /\ \A tick \in hostImmediates :
          ( /\ tick.fn = "lint"
            /\ \E c \in LintOutcomes : Becomes(immediateCallback(State, tick, c))
            /\ StepEvents("fn", tick.run) # {} )
          => Advanced(tick.run)]_vars

\* C23's case: the run for b, a found no tree for b; nothing was published
\* and checkOne is armed for a.
C23_Witness ==
  \E r \in 1..Len(runs) :
    /\ runs[r].files = <<"b", "a">>
    /\ "b" \notin trees
    /\ runs[r].index = 1
    /\ ~runs[r].await
    /\ \E i \in LogEvents("fn") : log[i].by = r /\ log[i].fn = "checkOne" /\ log[i].val = 0
    /\ LogEvents("update") = {}
    /\ timerHandle = Tick(r, "checkOne", 1)
    /\ timerHandle \in hostTimers

\* C24: within a run the files are taken in list order; the type-inference
\* diagnostics of a file are published by the continuation of its checkOne,
\* the lint diagnostics by the immediate tick that continuation armed, hence
\* on a later tick; and the run goes on to the next file only in the step
\* that published the file's lint diagnostics (or found the file without tree).
C24_StepOrder ==
  [][\A r \in 1..Len(runs) :
       LET index == runs[r].index
           lint == Tick(r, "lint", index)
           Updates(kind) == {i \in StepEvents("update", r) : log'[i].fn = kind}
       IN /\ \A i \in StepEvents("fn", r) :
               log'[i].fn \in {"checkOne", "lint"} => log'[i].val = index
          /\ \A i \in StepEvents("update", r) : log'[i].uri = CurrentFile(r)
          /\ Updates("TypeInference") # {} =>
               /\ runs[r].await
               /\ Updates("ElmLS") = {}
               /\ StepEvents("fn", r) = {}
          /\ Updates("ElmLS") # {} =>
               /\ lint \in hostImmediates
               /\ Updates("TypeInference") = {}
          /\ \A n \in 0..Len(runs[r].files) :
               Tick(r, "lint", n) \in hostImmediates' \ hostImmediates =>
                 /\ n = index
                 /\ Updates("TypeInference") # {}
          /\ runs'[r].index # index =>
               /\ runs'[r].index = index + 1
               /\ \/ Updates("ElmLS") # {}
                  \/ CurrentFile(r) \notin trees /\ StepEvents("update", r) = {}
          /\ \A n \in 0..Len(runs[r].files) :
               Tick(r, "checkOne", n) \in hostTimers' \ hostTimers =>
                 runs'[r].index = n /\ index = n - 1]_vars

\* C24's case: the lint tick of the run for b, a published b's lint
\* diagnostics after the type-inference ones were stored, and armed checkOne
\* for a.
C24_Witness ==
  \E r \in 1..Len(runs) :
    /\ runs[r].files = <<"b", "a">>
    /\ runs[r].index = 1
    /\ currentDiagnostics["b"].TypeInference = <<"t">>
    /\ \E i \in LogEvents("update") :
         log[i].by = r /\ log[i].fn = "ElmLS" /\ log[i].uri = "b" /\ log[i].val = <<"l">>
    /\ Tick(r, "checkOne", 1) \in hostTimers

\* C26: requestDiagnostics starts no run and arms no tick of a run: it
\* records the URI and arms the debounce timer; whatever is recorded has the
\* debounce timer armed; and when the timer fires, one drain starts one run
\* whose list holds every recorded URI, and empties the record.
C26_MarkOnlyArms ==
  /\ [](pendingDiagnostics # <<>> => delayerArmed)
  /\ [][TreeChange =>
          /\ Len(runs') = Len(runs)
          /\ \A i \in 1..Len(log') : log'[i].e \notin {"start", "fn", "schedule"}
          /\ hostTimers' = hostTimers
          /\ hostImmediates' = hostImmediates
          /\ PendingUris(pendingDiagnostics) \subseteq PendingUris(pendingDiagnostics')
          /\ Len(pendingDiagnostics') <= Len(pendingDiagnostics) + 1
          /\ pendingDiagnostics' # <<>>
          /\ delayerArmed']_vars
  /\ [][(DelayerFire /\ pendingDiagnostics # <<>>) =>
          /\ Len(runs') = Len(runs) + 1
          /\ Cardinality(LogEvents("start")') = 1
          /\ PendingUris(pendingDiagnostics)
               \subseteq SeqToSet(runs'[Len(runs')].files)
          /\ pendingDiagnostics' = <<>>
          /\ ~delayerArmed']_vars

\* C26's case: after the first drain two files were marked at different
\* times; no run was started for them, both wait for the debounce timer.
C26_Witness ==
  /\ Len(runs) = 1
  /\ Len(pendingDiagnostics) = 2
  /\ pendingDiagnostics[1].ts # pendingDiagnostics[2].ts
  /\ delayerArmed
  /\ LogEvents("trigger") # {}
  /\ LogEvents("start") = {}
  /\ events = 2

\* The last handler was a tick or continuation of a run that stored the
\* diagnostics of the kind for the file.
StoredByRun(u, kind) ==
  \E i \in LogEvents("update") :
    log[i].by # 0 /\ log[i].uri = u /\ log[i].fn = kind

\* Every drain that can still be asked for (the one the debounce timer is
\* armed for and one for each event still to come) can start its run.
RoomForRuns == Len(runs) + 1 + (MaxEvents - events) <= MaxRuns

\* C25: a file with a tree that is marked pending when the documents have
\* stopped changing has its type-inference diagnostics and its lint
\* diagnostics stored by some run eventually, the host firing every timer
\* and the producer resolving every promise.
C25_NoFileDropped ==
  \A u \in Files :
    LET Marked == /\ u \in PendingUris(pendingDiagnostics)
                  /\ u \in trees
                  /\ changeSeq = MaxChanges
                  /\ RoomForRuns
    IN /\ Marked ~> StoredByRun(u, "TypeInference")
       /\ Marked ~> StoredByRun(u, "ElmLS")

\* createDiagnostics has been called on the tree.
Linted == LogEvents("lint") # {}

\* The place of a diagnostic's rule in the list of the 15 rules: unused
\* import, unused imported value, unused alias, unused pattern, ...
ListedPlace(code) ==
  CASE code = "unused_import" -> 1
    [] code = "unused_imported_value" -> 2
    [] code = "unused_alias" -> 3
    [] code \in {"unused_pattern", "unused_top_level"} -> 4
    [] code = "map_nothing_to_nothing" -> 5
    [] code = "boolean_case_expr" -> 6
    [] code = "drop_concat_of_lists" -> 7
    [] code = "drop_cons_of_item_and_list" -> 8
    [] code = "use_cons_over_concat" -> 9
    [] code = "single_field_record" -> 10
    [] code = "unnecessary_list_concat" -> 11
    [] code = "unnecessary_port_module" -> 12
    [] code = "no_uncurried_prefix" -> 13
    [] code = "unused_type_alias" -> 14
    [] OTHER -> 15

\* C27: the list createDiagnostics returns holds the diagnostics of an
\* earlier rule of the list before those of a later rule, and, no rule
\* having thrown, holds each rule's findings, in the rule's order, and
\* nothing else.
C27_ChecksInOrder ==
  Linted =>
    /\ \A i, j \in 1..Len(lintDiagnostics) :
         i < j => ListedPlace(lintDiagnostics[i].code)
                    <= ListedPlace(lintDiagnostics[j].code)
    /\ lintTree.throws = "none" =>
         \A check \in SeqToSet(Checks) :
           LET found == checkResult(lintTree, check)
               OfCheck(d) == \E k \in 1..Len(found) : found[k] = d
           IN SelectSeq(lintDiagnostics, OfCheck) = found

\* C27's case: every one of the 15 rules found something in the tree, and
\* the list returned has the 15 diagnostics.
C27_Witness ==
  /\ Linted
  /\ Len(lintDiagnostics) = 15
  /\ \A k \in 1..15 : ListedPlace(lintDiagnostics[k].code) = k

\* The diagnostics with the code that name the text.
Reported(code, text) ==
  {k \in 1..Len(lintDiagnostics) :
     lintDiagnostics[k].code = code /\ lintDiagnostics[k].text = text}

\* C29: an imported module that no reference outside the import clauses
\* qualifies gets one unused_import for its import clause, with or without
\* exposing list or alias, and an exposed value that is not used gets one
\* unused_imported_value.
C29_UnusedImportReported ==
  (Linted /\ lintTree.throws = "none") =>
    \A i \in 1..Len(lintTree.imports) :
      LET imp == lintTree.imports[i]
      IN /\ (\A r \in AllRefs(lintTree) : r.q # imp.module) =>
              Cardinality(Reported("unused_import", imp.module)) = 1
         /\ \A v \in SeqToSet(imp.exposing) :
              (\A r \in AllRefs(lintTree) : ~(r.q = "" /\ r.text = v)) =>
                Cardinality(Reported("unused_imported_value", v)) = 1

\* C30: a top-level function the module does not expose gets an
\* unused_top_level diagnostic if and only if no other top-level value
\* declaration refers to its name.
C30_UnusedTopLevel ==
  (Linted /\ lintTree.throws = "none") =>
    \A i \in 1..Len(lintTree.decls) :
      LET name == lintTree.decls[i].name
          usedElsewhere ==
            \E j \in 1..Len(lintTree.decls) :
              /\ j # i
              /\ \E r \in lintTree.decls[j].refs : r.q = "" /\ r.text = name
      IN (~lintTree.exposingAll /\ name \notin lintTree.exposed) =>
           (Reported("unused_top_level", name) # {} <=> ~usedElsewhere)

\* Run r has nothing left to do: no tick of it is armed, its checkOne is not
\* suspended, and it went through its whole list or stopped at a checkOne
\* that found changeSeq changed.
RunOver(r) ==
  /\ \A h \in hostTimers \cup hostImmediates : h.run # r
  /\ ~runs[r].await
  /\ \/ runs[r].index >= Len(runs[r].files)
     \/ runs[r].stepped > 0 /\ runs[r].seq # changeSeq

\* C33: once the run of the pending request has finished its last file or
\* has stopped on a changed changeSeq, pendingRequest is cleared, and an
\* interuptDiagnostics(f) that follows calls f and neither cancels a token
\* nor triggers a drain.
C33_ReturnsToIdle ==
  /\ [](pendingRequest # NoReq => ~RunOver(pendingRequest.token))
  /\ [][(Interrupt /\ \A r \in 1..Len(runs) : RunOver(r)) =>
          /\ LogEvents("cancel")' = {}
          /\ LogEvents("trigger")' = {}]_vars

\* The run of the pending request is through with file u: goNext has moved
\* its index past u after the lint diagnostics of u were stored (u has a
\* tree, so it was not skipped).
PublishedByPrior(u) ==
  /\ pendingRequest # NoReq
  /\ \E k \in 1..Len(pendingRequest.files) :
       /\ pendingRequest.files[k] = u
       /\ k <= runs[pendingRequest.token].index
  /\ u \in trees

\* C34: a drain carries over from the prior request only the files the prior
\* run left unfinished: a file the prior run has published type-inference
\* and lint diagnostics for, and which is neither pending nor open, is not in
\* the list of the new run.
C34_CarriesUnfinishedOnly ==
  [][DelayerFire =>
       \A u \in Files :
         ( /\ PublishedByPrior(u)
           /\ u \notin PendingUris(pendingDiagnostics)
           /\ \A k \in 1..Len(openFiles) : openFiles[k] # u )
         => \/ pendingRequest' = NoReq
            \/ \A k \in 1..Len(pendingRequest'.files) :
                 pendingRequest'.files[k] # u]_vars

\* C35: while the last configuration change is one that disabled lint
\* diagnostics, no file has a non-empty lint list and no notification that
\* holds a lint diagnostic is sent, whatever runs execute.
C35_LintStaysOff ==
  clientSettings.disableElmLSDiagnostics =>
    /\ \A u \in Files : currentDiagnostics[u].ElmLS = <<>>
    /\ \A i \in LogEvents("send") :
         \A k \in 1..Len(log[i].val) : log[i].val[k] # "l"

\* The done callback of run r was invoked before place i of the record of
\* the last handler.
DoneBefore(r, i) ==
  /\ doneCount[r] > 0
  /\ \A j \in LogEvents("done") : log[j].run = r => j < i

\* C36: after the done callback of a run was invoked no tick function of the
\* run executes and the run calls updateDiagnostics no more, and done is not
\* invoked while a checkOne of the run is suspended at the type-inference
\* await.
C36_DoneMeansFinished ==
  /\ \A r \in 1..Len(runs) : runs[r].await => doneCount[r] = 0
  /\ \A i \in LogEvents("fn") :
       log[i].fn \in {"checkOne", "lint"} => ~DoneBefore(log[i].run, i)
  /\ \A i \in RunUpdates : ~DoneBefore(log[i].by, i)

\* Tree changes in both modes: the runs of either mode with the tree-change
\* events that arrive while they are scheduled, suspended or over.
TreeNext ==
  \/ TreeChange
  \/ DelayerFire
  \/ GetDiagnosticsRequest
  \/ TimerFire
  \/ ImmediateFire
  \/ ProducerResolve

TreeSpec == Init /\ [][TreeNext]_vars

\* The step is the tree-change handler for file uri.
TreeStep(uri, later) ==
  /\ events < MaxEvents
  /\ uri \in trees
  /\ Becomes(onTreeChange(IF clientInitiated THEN State ELSE Counted, uri, later))

\* C37: in server-initiated mode the tree-change handler cancels the token
\* of the pending request, if there is one, keeps the request and its file
\* list, so that the next drain lists its files, marks the changed file
\* pending and arms the debounce, and starts no run; in client-initiated
\* mode the handler changes nothing.
C37_TreeChangeHandling ==
  /\ [](clientInitiated =>
          \A uri \in Files, later \in BOOLEAN :
            onTreeChange(State, uri, later) = State)
  /\ [][\A uri \in Files, later \in BOOLEAN :
          (~clientInitiated /\ TreeStep(uri, later)) =>
            /\ pendingRequest # NoReq =>
                 /\ pendingRequest.token \in cancelled'
                 /\ \E i \in LogEvents("cancel")' :
                      log'[i].run = pendingRequest.token
            /\ pendingRequest = NoReq => LogEvents("cancel")' = {}
            /\ pendingRequest' = pendingRequest
            /\ Len(runs) < MaxRuns =>
                 \A k \in 1..Len(pendingRequest.files) :
                   \E m \in 1..Len(sendPendingDiagnostics(State').pendingRequest.files) :
                     sendPendingDiagnostics(State').pendingRequest.files[m] =
                       pendingRequest.files[k]
            /\ PendingUris(pendingDiagnostics') =
                 PendingUris(pendingDiagnostics) \cup {uri}
            /\ delayerArmed'
            /\ Len(runs') = Len(runs)
            /\ LogEvents("start")' = {}
            /\ UNCHANGED <<hostTimers, hostImmediates, timerHandle, immediateId,
                           changeSeq, currentDiagnostics>>]_vars

\* C37's case: in server-initiated mode a tree change of a file came while a
\* request was pending: its token was cancelled in the handler, the request
\* is still there, the file is pending and the debounce is armed.
C37_Witness ==
  /\ ~clientInitiated
  /\ pendingRequest # NoReq
  /\ \E i \in LogEvents("cancel") : log[i].run = pendingRequest.token
  /\ LogEvents("trigger") # {}
  /\ LogEvents("f") = {}
  /\ pendingDiagnostics # <<>>
  /\ delayerArmed

\* The step is a getElmMakeDiagnostics call going on after its await with
\* the compiler's result.  A call does nothing before the await, so calls
\* that overlap are seen as their completions, in the order they happen.
RefreshStep(result) ==
  /\ events < MaxEvents
  /\ Becomes(getElmMakeDiagnosticsResume(Counted, result))

\* The list a compiler result holds for a file, empty when it has no entry.
ResultFor(result, u) ==
  IF \E i \in 1..Len(result) : result[i].uri = u
  THEN result[CHOOSE i \in 1..Len(result) : result[i].uri = u].d
  ELSE <<>>

\* C38: when a getElmMakeDiagnostics call completes, every file that has a
\* FileDiagnostics has as its elm make list the list of the compiler's
\* result for it, or the empty list when the result has no entry for it, and
\* the lint and type-inference lists of all files are as before; so after
\* overlapping refreshes the elm make lists are those of the one that
\* completed last.
C38_ElmMakeRefresh ==
  [][\A result \in MakeResults :
       RefreshStep(result) =>
         \A u \in Files :
           LET old == currentDiagnostics[u]
               new == currentDiagnostics'[u]
           IN /\ new.has => new.ElmMake = ResultFor(result, u)
              /\ new.ElmLS = old.ElmLS
              /\ new.TypeInference = old.TypeInference]_vars

\* C38's case: a refresh completed after an earlier one had stored an elm
\* make list for file a: its result has no entry for a, whose list was
\* emptied and published, while file b kept its lint list.
C38_Witness ==
  /\ events = 2
  /\ currentDiagnostics["a"].has /\ currentDiagnostics["b"].has
  /\ currentDiagnostics["a"].ElmMake = <<>>
  /\ currentDiagnostics["b"].ElmLS # <<>>
  /\ \E i \in EventsOn(log, "update", "a") :
       log[i].fn = "ElmMake" /\ log[i].val = <<>>
  /\ \E i \in EventsOn(log, "update", "b") : log[i].fn = "ElmMake"
  /\ EventsOn(log, "send", "a") # {}

\* The variants of the tree with the name of their type.
Variants == SeqToSet(unionVariants(lintTree.types))

\* C31: a variant of a type that is wildcard-exposed, by an entry Type(..)
\* of the module's exposing list or by a module declaration exposing (..),
\* gets no unused_value_constructor diagnostic; any other variant gets it
\* if and only if nothing refers to it as value expression, in a type
\* reference or as case pattern.
C31_WildcardExposure ==
  (Linted /\ lintTree.throws = "none") =>
    \A v \in Variants :
      LET wildcard ==
            \/ lintTree.exposingAll
            \/ [name |-> v.typeName, all |-> TRUE] \in lintTree.exposedTypes
          referenced ==
            \/ \E r \in AllRefs(lintTree) : r.q = "" /\ r.text = v.unionVariant
            \/ v.unionVariant \in lintTree.typeRefs
            \/ v.unionVariant \in lintTree.casePatterns
          reported == Reported("unused_value_constructor", v.unionVariant) # {}
      IN IF wildcard THEN ~reported ELSE reported <=> ~referenced

\* The URI of a module name as the claim derives it: every dot replaced by
\* a path separator, .elm appended, under the base source directory.
DerivedUri(moduleName) ==
  <<"file://">> \o baseUri
  \o [i \in 1..Len(moduleName) |-> IF moduleName[i] = "." THEN "/" ELSE moduleName[i]]
  \o <<".", "elm">>

\* The module names imported by the tree: those of its import clauses and
\* of the virtual imports.
Imported ==
  {m \in SeqToSet(VirtualImports \o workspace.importClauses) : m # <<>>}

\* C32: the resolved-module map has an entry moduleName -> URI exactly for
\* the imported module names whose derived URI is in the forest, the URI of
\* the entry being the derived one; an import that does not resolve gives
\* no entry.
C32_ModuleResolution ==
  workspace.resolved =>
    LET map == workspace.resolvedModules
    IN /\ \A m \in Imported :
            DerivedUri(m) \in workspace.forest <=>
              \E i \in 1..Len(map) : map[i].moduleName = m
       /\ \A i \in 1..Len(map) :
            /\ map[i].moduleName \in Imported
            /\ map[i].uri = DerivedUri(map[i].moduleName)
            /\ \A j \in 1..Len(map) :
                 map[j].moduleName = map[i].moduleName => j = i

\* C32's case: the modules were resolved of a tree that imports Foo.Bar and
\* Qux, in a forest with Foo/Bar.elm, Foo.Bar.elm and Basics.elm and without
\* Qux.elm: Foo.Bar and the virtual import Basics have their entries, Qux
\* has none.
C32_Witness ==
  /\ workspace.resolved
  /\ workspace.importClauses = <<(<<"Foo", ".", "Bar">>), (<<"Qux">>)>>
  /\ ForestUri(<<"Foo", ".", "Bar", ".", "elm">>) \in workspace.forest
  /\ workspace.resolvedModules =
       <<[moduleName |-> <<"Basics">>,
          uri |-> ForestUri(<<"Basics", ".", "elm">>)],
         [moduleName |-> <<"Foo", ".", "Bar">>,
          uri |-> ForestUri(<<"Foo", "/", "Bar", ".", "elm">>)]>>

====
